---- MODULE Spec2Model ----
(***************************************************************************)
(* A model of serde_php: the PHP serialize()/unserialize() codec.          *)
(*                                                                         *)
(* A byte is a one-token string ("a", ":", "xFF" for 0xFF, ...); a byte    *)
(* stream is a sequence of bytes.  The reader (Lookahead1), the grammar    *)
(* helpers, the deserializer (PhpDeserializer, ArraySequence,              *)
(* ArrayMapping, deserialize_unordered_array) and the serializer           *)
(* (PhpSerializer, NumericArraySerializer) are operators translated from   *)
(* src/src/de.rs and src/src/ser.rs; the two entry points to_vec and       *)
(* from_bytes are the actions of the state machine.  A second state        *)
(* machine (ReaderSpec) drives the reader alone, one call of peek, read1,  *)
(* expect or read_exact at a time, and a third (ArraySpec) runs the array  *)
(* arm of deserialize_any one loop iteration at a time.                    *)
(*                                                                         *)
(* Integer widths are scaled: TLC's integers are 32 bits wide, so the      *)
(* 64-bit word of the program is modelled with WordBits bits and the       *)
(* narrower types keep their order below it (8-bit types keep 8 bits at    *)
(* the base bound).                                                        *)
(***************************************************************************)
EXTENDS Integers, Sequences, FiniteSets, TLC

VARIABLES
    pc,      \* "value": a typed value awaits to_vec; "bytes": input awaits from_bytes; "done"
    ty,      \* the Rust type T of to_vec::<T> / from_bytes::<T>
    value,   \* the value handed to to_vec (NoValue when the run starts from raw bytes)
    encoded, \* the result of to_vec: [ok, out, err]
    input,   \* the byte slice handed to from_bytes
    result,  \* the result of from_bytes: [ok, val, err, st]
    lookahead, \* ReaderSpec: the Lookahead1 the calls are made on, over input
    returned,  \* ReaderSpec: the bytes its consuming calls returned, in call order
    call,      \* ReaderSpec: the last call: [op, c (what peek returned), buffered, n]
    loop,      \* ArraySpec: the locals of the running loop: [num, index, buf, acc]
    steps      \* ArraySpec: the number of steps the decode has taken

vars == <<pc, ty, value, encoded, input, result, lookahead, returned, call, loop, steps>>

----------------------------------------------------------------------------
(* Bounds of the model.                                                    *)

\* Modelled width of the program's 64-bit integers.
WordBits == 11
\* Longest text string / byte string drawn as a value.
MaxStrLen == 2
\* Longest sequence / map drawn as a value.
MaxSeqLen == 2
\* Most keys of a hand-built integer-keyed wire array.
MaxKeys == 3
\* Largest key of a hand-built integer-keyed wire array.
MaxKey == 3
\* Longest tail appended to a raw wire prefix.
MaxTailLen == 2
\* Most bytes after the opening quote of a hand-built wire string.
MaxRestLen == 5
\* Most bytes between `d:` and `;` of a hand-built wire float.
MaxFloatLen == 3
\* Largest magnitude of the digits of a float drawn as a value.
MaxFloat == 25

----------------------------------------------------------------------------
(* Bytes.                                                                  *)

Digits == {"0", "1", "2", "3", "4", "5", "6", "7", "8", "9"}

DigitVal(c) ==
    CASE c = "0" -> 0 [] c = "1" -> 1 [] c = "2" -> 2 [] c = "3" -> 3
      [] c = "4" -> 4 [] c = "5" -> 5 [] c = "6" -> 6 [] c = "7" -> 7
      [] c = "8" -> 8 [] c = "9" -> 9

DigitChar(d) ==
    CASE d = 0 -> "0" [] d = 1 -> "1" [] d = 2 -> "2" [] d = 3 -> "3"
      [] d = 4 -> "4" [] d = 5 -> "5" [] d = 6 -> "6" [] d = 7 -> "7"
      [] d = 8 -> "8" [] d = 9 -> "9"

\* The numeric value of the bytes that occur as string content.
ByteVal(c) ==
    CASE c = "a" -> 97 [] c = "b" -> 98 [] c = "i" -> 105 [] c = "d" -> 100
      [] c = "s" -> 115 [] c = "x" -> 120 [] c = "N" -> 78 [] c = "O" -> 79
      [] c = "\"" -> 34 [] c = ";" -> 59 [] c = ":" -> 58 [] c = "{" -> 123
      [] c = "}" -> 125 [] c = "+" -> 43 [] c = "-" -> 45 [] c = "." -> 46
      [] c = "xC3" -> 195 [] c = "xA9" -> 169 [] c = "xFF" -> 255
      [] c = "B" -> 66 [] c = "e" -> 101 [] c = "f" -> 102 [] c = "g" -> 103
      [] c = "m" -> 109 [] c = "n" -> 110 [] c = "o" -> 111 [] c = "r" -> 114
      [] c = "t" -> 116
      [] c \in Digits -> 48 + DigitVal(c)

\* The bytes of the model.
ByteTokens ==
    Digits \cup {"a", "b", "i", "d", "s", "x", "N", "O", "\"", ";", ":", "{", "}", "+", "-",
                 ".", "xC3", "xA9", "xFF", "B", "e", "f", "g", "m", "n", "o", "r", "t"}

RECURSIVE Pow2(_)
Pow2(n) == IF n = 0 THEN 1 ELSE 2 * Pow2(n - 1)

RECURSIVE Concat(_)
Concat(ss) == IF ss = <<>> THEN <<>> ELSE Head(ss) \o Concat(Tail(ss))

----------------------------------------------------------------------------
(* Errors (error.rs).  ch carries the characters of an error, idx its      *)
(* indices.                                                                *)

Err(kind, ch, idx) == [kind |-> kind, ch |-> ch, idx |-> idx]
NoErr == Err("", <<>>, <<>>)
UnexpectedEof == Err("UnexpectedEof", <<>>, <<>>)
Unexpected(expected, actual) == Err("Unexpected", <<expected, actual>>, <<>>)
ExpectedDigit(actual) == Err("ExpectedDigit", <<actual>>, <<>>)
ReadSerialized == Err("ReadSerialized", <<>>, <<>>)
Utf8Error == Err("Utf8Error", <<>>, <<>>)
CharConversionFailed == Err("CharConversionFailed", <<>>, <<>>)
NotAValidNumber == Err("NotAValidNumber", <<>>, <<>>)
InvalidBooleanValue(c) == Err("InvalidBooleanValue", <<c>>, <<>>)
UnsupportedArrayKeyType(c) == Err("UnsupportedArrayKeyType", <<c>>, <<>>)
InvalidTypeIndicator(c) == Err("InvalidTypeIndicator", <<c>>, <<>>)
MissingFeature == Err("MissingFeature", <<>>, <<>>)
IndexMismatch(expected, actual) == Err("IndexMismatch", <<>>, <<expected, actual>>)
LengthRequired == Err("LengthRequired", <<>>, <<>>)
\* serde::de::Error::custom: what a visitor returns for a call it does not accept.
DeserializationFailed == Err("DeserializationFailed", <<>>, <<>>)

----------------------------------------------------------------------------
(* Lookahead1: the reader over the input slice.  pos counts the bytes      *)
(* taken from the underlying reader, buffer is the Option<u8> (<<>> is     *)
(* None).                                                                  *)
(*                                                                         *)
(* The reader's methods are chained with `?` in the source.  A method is   *)
(* modelled on r, the outcome of the calls made so far: the reader st, ok  *)
(* and err, and what the calls returned (the byte c of read1, the digit    *)
(* buffer buf, the parsed number n, the string data).  A method applied to *)
(* a failed r returns it unchanged, which is the `?`.                      *)

NewReader(s) == [inp |-> s, pos |-> 0, buffer |-> <<>>]

Start(st) ==
    [ok |-> TRUE, st |-> st, err |-> NoErr, c |-> "", buf |-> <<>>, n |-> 0, data |-> <<>>]

\* return Err(e), the reader being st
Raise(r, st, e) == [r EXCEPT !.ok = FALSE, !.st = st, !.err = e]

Fill(st) ==
    IF st.buffer = <<>> /\ st.pos < Len(st.inp)
    THEN [st EXCEPT !.buffer = <<st.inp[st.pos + 1]>>, !.pos = st.pos + 1]
    ELSE st

\* c is the Option<u8>: <<>> at end of input.
Peek(st) == [st |-> Fill(st), c |-> Fill(st).buffer]

Read1(r) ==
    IF ~r.ok THEN r ELSE
    LET f == Fill(r.st) IN
    IF f.buffer = <<>> THEN Raise(r, f, UnexpectedEof)
    ELSE [r EXCEPT !.st = [f EXCEPT !.buffer = <<>>], !.c = f.buffer[1]]

\* The byte expect reads is its local `actual`: r.c is left as it was.
Expect(r, expected) ==
    LET Actual(a) ==
            IF ~a.ok THEN a
            ELSE IF a.c = expected THEN [a EXCEPT !.c = r.c]
            ELSE Raise(a, a.st, Unexpected(expected, a.c))
    IN  Actual(Read1(r))

\* let mut buf = SmallVec::new()
NewBuf(r) == IF ~r.ok THEN r ELSE [r EXCEPT !.buf = <<>>]

\* buf.push(c)
Push(r, c) == IF ~r.ok THEN r ELSE [r EXCEPT !.buf = Append(@, c)]

\* The first byte of collect_unsigned, which must be a digit.
FirstDigit(a) ==
    IF ~a.ok THEN a
    ELSE IF a.c \notin Digits THEN Raise(a, a.st, ExpectedDigit(a.c))
    ELSE Push(a, a.c)

\* The while loop of collect_unsigned.
RECURSIVE CollectDigits(_)
CollectDigits(r) ==
    IF ~r.ok THEN r ELSE
    LET p == Peek(r.st) IN
    IF p.c = <<>> \/ p.c[1] \notin Digits THEN [r EXCEPT !.st = p.st]
    ELSE CollectDigits(Push(Expect([r EXCEPT !.st = p.st], p.c[1]), p.c[1]))

CollectUnsigned(r) == CollectDigits(FirstDigit(Read1(r)))

CollectSign(r) ==
    IF ~r.ok THEN r ELSE
    LET p == Peek(r.st) IN
    IF p.c # <<>> /\ p.c[1] \in {"+", "-"}
    THEN Expect(Push([r EXCEPT !.st = p.st], p.c[1]), p.c[1])
    ELSE [r EXCEPT !.st = p.st]

\* read_exact that fills the whole buffer from the underlying reader and
\* leaves a buffered byte where it is.
ReadExact_Unfolded(r) ==
    IF ~r.ok THEN r
    ELSE IF r.n = 0 THEN [r EXCEPT !.data = <<>>]
    ELSE IF r.st.pos + r.n <= Len(r.st.inp)
         THEN [r EXCEPT !.st = [r.st EXCEPT !.pos = r.st.pos + r.n],
                        !.data = SubSeq(r.st.inp, r.st.pos + 1, r.st.pos + r.n)]
         ELSE Raise(r, [r.st EXCEPT !.pos = Len(r.st.inp)], ReadSerialized)

\* read_exact over a buffer of r.n bytes: the buffered byte first, the rest
\* from the underlying reader, whose read_exact fails when fewer bytes remain.
ReadExact(r) ==
    IF ~r.ok THEN r
    ELSE IF r.n = 0 THEN [r EXCEPT !.data = <<>>]
    ELSE LET head == r.st.buffer
             rest == r.n - Len(head)
             s1   == [r.st EXCEPT !.buffer = <<>>]
         IN  IF s1.pos + rest <= Len(s1.inp)
             THEN [r EXCEPT !.st = [s1 EXCEPT !.pos = s1.pos + rest],
                            !.data = head \o SubSeq(s1.inp, s1.pos + 1, s1.pos + rest)]
             ELSE Raise(r, [s1 EXCEPT !.pos = Len(s1.inp)], ReadSerialized)

----------------------------------------------------------------------------
(* Integer types and str::parse.                                           *)

IntTypes == {"i8", "i16", "i32", "i64", "u8", "u16", "u32", "u64", "usize"}

\* Modelled width of each integer type.
Bits(t) ==
    CASE t \in {"i64", "u64", "usize"} -> WordBits
      [] t \in {"i32", "u32"} -> WordBits - 1
      [] t \in {"i16", "u16"} -> WordBits - 2
      [] t \in {"i8", "u8"} -> WordBits - 3

Signed(t) == t \in {"i8", "i16", "i32", "i64"}
IntMin(t) == IF Signed(t) THEN 0 - Pow2(Bits(t) - 1) ELSE 0
IntMax(t) == IF Signed(t) THEN Pow2(Bits(t) - 1) - 1 ELSE Pow2(Bits(t)) - 1
InRange(t, n) == IntMin(t) <= n /\ n <= IntMax(t)

\* The digit loop of from_str_radix: checked_mul and checked_add (checked_sub
\* for a negative number) at every digit.  Yields <<n>>, or <<>> on overflow or
\* on a byte that is no digit.
RECURSIVE ParseDigits(_, _, _, _)
ParseDigits(ds, acc, neg, t) ==
    IF ds = <<>> THEN <<acc>>
    ELSE IF Head(ds) \notin Digits THEN <<>>
    ELSE LET d == DigitVal(Head(ds))
             next == IF neg THEN acc * 10 - d ELSE acc * 10 + d
         IN  IF InRange(t, next) THEN ParseDigits(Tail(ds), next, neg, t) ELSE <<>>

\* <integer type>::from_str.
ParseInt(buf, t) ==
    IF buf = <<>> THEN <<>>
    ELSE IF Head(buf) \in {"+", "-"} /\ Len(buf) = 1 THEN <<>>
    ELSE IF Head(buf) = "+" THEN ParseDigits(Tail(buf), 0, FALSE, t)
    ELSE IF Head(buf) = "-" /\ Signed(t) THEN ParseDigits(Tail(buf), 0, TRUE, t)
    ELSE ParseDigits(buf, 0, FALSE, t)


\* f64::from_str on the text the float arm collects: sign, digits and an optional
\* "." with digits.  A float is its decimal value num / 10^scale, with the
\* fraction's trailing zeros dropped ("5.0" and "5" are the same float).
RECURSIVE DigitsVal(_, _)
DigitsVal(ds, acc) == IF ds = <<>> THEN acc ELSE DigitsVal(Tail(ds), acc * 10 + DigitVal(Head(ds)))

RECURSIVE NormF64(_, _)
NormF64(num, scale) ==
    IF scale > 0 /\ num % 10 = 0 THEN NormF64(num \div 10, scale - 1)
    ELSE [num |-> num, scale |-> scale]

ParseF64(buf) ==
    LET neg    == buf # <<>> /\ Head(buf) = "-"
        body   == IF buf # <<>> /\ Head(buf) \in {"+", "-"} THEN Tail(buf) ELSE buf
        dots   == {i \in 1..Len(body) : body[i] = "."}
        dot    == IF dots = {} THEN Len(body) + 1 ELSE CHOOSE i \in dots : TRUE
        ip     == SubSeq(body, 1, dot - 1)
        fp     == SubSeq(body, dot + 1, Len(body))
        mag    == DigitsVal(ip \o fp, 0)
    IN  NormF64(IF neg THEN 0 - mag ELSE mag, Len(fp))

----------------------------------------------------------------------------
(* The Rust types a value is encoded from / decoded into, and their        *)
(* values.                                                                 *)

TUnit == [k |-> "unit"]
TBool == [k |-> "bool"]
TInt(t) == [k |-> "int", t |-> t]
TF64 == [k |-> "f64"]
TChar == [k |-> "char"]
TString == [k |-> "string"]
\* #[serde(with = "serde_bytes")] Vec<u8>: a PHP byte string
TBytes == [k |-> "bytes"]
TOption(T) == [k |-> "option", of |-> T]
TNewtype(T) == [k |-> "newtype", of |-> T]
TVec(T) == [k |-> "vec", of |-> T]
TTuple(ts) == [k |-> "tuple", elems |-> ts]
\* A sequence / a map whose Serialize impl does not know its length: it calls
\* serialize_seq(None) / serialize_map(None), as collect_seq and collect_map
\* do for an iterator with no exact size.
TIter(T) == [k |-> "iter", of |-> T]
TIterMap(T) == [k |-> "itermap", of |-> T]
\* HashMap<String, T>
TMap(T) == [k |-> "map", of |-> T]
\* BTreeMap<usize, T>
TBTreeMap(T) == [k |-> "btree", of |-> T]
\* A record; fields is a sequence of [name, fty].
TStruct(fields) == [k |-> "struct", fields |-> fields]
TField(name, T) == [name |-> name, fty |-> T]
\* struct Data(#[serde(deserialize_with = "deserialize_unordered_array")] Vec<T>)
TUnordered(T) == [k |-> "unordered", of |-> T]
\* serde::de::IgnoredAny, the target of a record's unknown fields
TIgnored == [k |-> "ignored"]
\* struct Marker;
TUnitStruct == [k |-> "unitstruct"]
\* An enum whose value is a variant of the form E::A, E::A(T), E::A(T, ..),
\* E::A { .. }.
TUnitVariant == [k |-> "unitvariant"]
TNewtypeVariant(T) == [k |-> "newtypevariant", of |-> T]
TTupleVariant(ts) == [k |-> "tuplevariant", elems |-> ts]
TStructVariant(fields) == [k |-> "structvariant", fields |-> fields]

NoValue == [k |-> "novalue"]
VUnit == [k |-> "unit"]
VBool(b) == [k |-> "bool", b |-> b]
VInt(n) == [k |-> "int", n |-> n]
VF64(num, scale) == [k |-> "f64", num |-> num, scale |-> scale]
VChar(code) == [k |-> "char", code |-> code]
VStr(s) == [k |-> "str", s |-> s]
VBytes(s) == [k |-> "bytes", s |-> s]
VNone == [k |-> "none"]
VSome(v) == [k |-> "some", v |-> v]
VNewtype(v) == [k |-> "newtype", v |-> v]
\* Vec and tuple values
VSeq(items) == [k |-> "seq", items |-> items]
\* HashMap: entries in iteration order, each [key, val]
VMap(entries) == [k |-> "map", entries |-> entries]
\* BTreeMap<usize, _>: entries in ascending key order, each [ikey, val]
VBTree(entries) == [k |-> "btree", ientries |-> entries]
\* A record's field values in declaration order
VStruct(fields) == [k |-> "struct", fvals |-> fields]
VIgnored == [k |-> "ignored"]
VUnitStruct == [k |-> "unitstruct"]
\* A variant and its payload (VUnit for a unit variant)
VVariant(v) == [k |-> "variant", v |-> v]

\* char::try_from(u32): a scalar value is at most CharMax and no surrogate
\* (the scaled 0x10FFFF and 0xD800..0xDFFF).
CharMax == Pow2(WordBits - 3) - 1
SurrogateLo == Pow2(WordBits - 5)
SurrogateHi == SurrogateLo + Pow2(WordBits - 8) - 1
IsChar(n) == 0 <= n /\ n <= CharMax /\ ~(SurrogateLo <= n /\ n <= SurrogateHi)

\* String::from_utf8 over the model's bytes: the one-byte tokens are ASCII,
\* "xC3" leads a two-byte character and needs the continuation byte "xA9",
\* "xFF" is never valid.
RECURSIVE Utf8Valid(_)
Utf8Valid(s) ==
    IF s = <<>> THEN TRUE
    ELSE IF Head(s) = "xC3" THEN Len(s) >= 2 /\ s[2] = "xA9" /\ Utf8Valid(Tail(Tail(s)))
    ELSE IF Head(s) \in {"xA9", "xFF"} THEN FALSE
    ELSE Utf8Valid(Tail(s))

----------------------------------------------------------------------------
(* Grammar helpers of Lookahead1.                                          *)

\* parse_bytes::<integer type>(buf): the buffers it is given hold sign and
\* digit bytes only, so from_utf8 succeeds.
ParseBytes(r, t) ==
    IF ~r.ok THEN r
    ELSE IF ParseInt(r.buf, t) = <<>> THEN Raise(r, r.st, NotAValidNumber)
    ELSE [r EXCEPT !.n = ParseInt(r.buf, t)[1]]

ReadRawString(r) ==
    Expect(Expect(ReadExact(Expect(Expect(
        ParseBytes(CollectUnsigned(NewBuf(r)), "usize"), ":"), "\"")), "\""), ";")

ReadArrayHeader(r) ==
    Expect(Expect(ParseBytes(CollectUnsigned(NewBuf(r)), "usize"), ":"), "{")

----------------------------------------------------------------------------
(* Results of a decode step: the value or the error, and the reader left   *)
(* behind.                                                                 *)

Ok(st, v) == [ok |-> TRUE, val |-> v, err |-> NoErr, st |-> st]
Fail(st, e) == [ok |-> FALSE, val |-> NoValue, err |-> e, st |-> st]

\* The identifier of a record's field: the target of a record's keys.
TFieldId(fields) == [k |-> "fieldid", fields |-> fields]
\* i is the field's position, 0 for a name the record does not have.
VField(i) == [k |-> "field", i |-> i]

----------------------------------------------------------------------------
(* The visitors of the target types: which visit_* call each accepts.  A   *)
(* call a visitor does not accept is serde's invalid_type / invalid_value, *)
(* built by Error::custom.                                                 *)

\* A unit visitor that takes visit_unit for IgnoredAny only.
VisitUnit_Rejected(T, st) ==
    IF T.k = "ignored" THEN Ok(st, VIgnored) ELSE Fail(st, DeserializationFailed)

VisitUnit(T, st) ==
    CASE T.k = "unit" -> Ok(st, VUnit)
      [] T.k = "unitstruct" -> Ok(st, VUnitStruct)
      [] T.k = "ignored" -> Ok(st, VIgnored)
      [] OTHER -> Fail(st, DeserializationFailed)

VisitBool(T, st, b) ==
    CASE T.k = "bool" -> Ok(st, VBool(b))
      [] T.k = "ignored" -> Ok(st, VIgnored)
      [] OTHER -> Fail(st, DeserializationFailed)

VisitI64(T, st, n) ==
    CASE T.k = "int" -> IF InRange(T.t, n) THEN Ok(st, VInt(n))
                        ELSE Fail(st, DeserializationFailed)
      [] T.k = "f64" -> Ok(st, VF64(n, 0))
      [] T.k = "ignored" -> Ok(st, VIgnored)
      [] OTHER -> Fail(st, DeserializationFailed)

VisitF64(T, st, x) ==
    CASE T.k = "f64" -> Ok(st, VF64(x.num, x.scale))
      [] T.k = "ignored" -> Ok(st, VIgnored)
      [] OTHER -> Fail(st, DeserializationFailed)

\* T::deserialize(U8Deserializer): one element of the SeqDeserializer a PHP
\* string is handed over as.  <<v>>, or <<>> when T does not take a u8.
FromU8(T, c) ==
    CASE T.k = "int" -> IF InRange(T.t, ByteVal(c)) THEN <<VInt(ByteVal(c))>> ELSE <<>>
      [] T.k = "f64" -> <<VF64(ByteVal(c), 0)>>
      [] T.k = "ignored" -> <<VIgnored>>
      [] OTHER -> <<>>

\* visitor.visit_seq(SeqDeserializer::new(data.into_iter()))
VisitSeqBytes(T, st, data) ==
    CASE T.k = "vec" ->
            IF \A i \in 1..Len(data) : FromU8(T.of, data[i]) # <<>>
            THEN Ok(st, VSeq([i \in 1..Len(data) |-> FromU8(T.of, data[i])[1]]))
            ELSE Fail(st, DeserializationFailed)
      [] T.k = "tuple" ->
            IF /\ Len(data) >= Len(T.elems)
               /\ \A i \in 1..Len(T.elems) : FromU8(T.elems[i], data[i]) # <<>>
            THEN Ok(st, VSeq([i \in 1..Len(T.elems) |-> FromU8(T.elems[i], data[i])[1]]))
            ELSE Fail(st, DeserializationFailed)
      [] T.k = "bytes" -> Ok(st, VBytes(data))
      [] T.k = "ignored" -> Ok(st, VIgnored)
      [] OTHER -> Fail(st, DeserializationFailed)

\* T::deserialize(key.into_deserializer()) for a key already read as text.
FromString(K, st, key) ==
    CASE K.k = "string" -> Ok(st, VStr(key))
      [] K.k = "fieldid" ->
            LET hits == {i \in 1..Len(K.fields) : K.fields[i].name = key} IN
            Ok(st, VField(IF hits = {} THEN 0 ELSE CHOOSE i \in hits : TRUE))
      [] K.k = "ignored" -> Ok(st, VIgnored)
      [] OTHER -> Fail(st, DeserializationFailed)

\* HashMap::insert: a key already present keeps its place and takes the new value.
MapInsert(entries, key, val) ==
    IF \E i \in 1..Len(entries) : entries[i].key = key
    THEN [i \in 1..Len(entries) |->
            IF entries[i].key = key THEN [key |-> key, val |-> val] ELSE entries[i]]
    ELSE Append(entries, [key |-> key, val |-> val])

\* An insert that appends: no ordering by key, no replacement.
BTreeInsert_Append(entries, ikey, val) == Append(entries, [ikey |-> ikey, val |-> val])

\* BTreeMap<usize, _>::insert: entries stay in ascending key order.
BTreeInsert(entries, ikey, val) ==
    LET less == SelectSeq(entries, LAMBDA e : e.ikey < ikey)
        more == SelectSeq(entries, LAMBDA e : e.ikey > ikey)
    IN  less \o <<[ikey |-> ikey, val |-> val]>> \o more

----------------------------------------------------------------------------
(* PhpDeserializer, ArraySequence and ArrayMapping.                        *)

RECURSIVE Deserialize(_, _), DeserializeAny(_, _), DeserializeOption(_, _),
          DeserializeMap(_, _), DeserializeUnorderedArray(_, _),
          VisitSeq(_, _, _), VisitMap(_, _, _),
          NextElementSeed(_, _, _, _), NextKeySeed(_, _, _, _),
          SeqElements(_, _, _, _, _), TupleElements(_, _, _, _, _),
          MapEntries(_, _, _, _, _), StructEntries(_, _, _, _, _)

\* visitor.visit_char(char::try_from(raw)?) on the parsed u32
VisitChar(r) ==
    IF ~r.ok THEN Fail(r.st, r.err)
    ELSE IF ~IsChar(r.n) THEN Fail(r.st, CharConversionFailed)
    ELSE Ok(r.st, VChar(r.n))

DeserializeChar(st) ==
    VisitChar(ParseBytes(Expect(CollectUnsigned(NewBuf(
        Expect(Expect(Start(st), "i"), ":"))), ";"), "u32"))

\* visitor.visit_string(String::from_utf8(raw)?)
VisitString(r) ==
    IF ~r.ok THEN Fail(r.st, r.err)
    ELSE IF ~Utf8Valid(r.data) THEN Fail(r.st, Utf8Error)
    ELSE Ok(r.st, VStr(r.data))

\* deserialize_string forwarded to deserialize_any like the other scalars.
DeserializeString_Forwarded(st) == DeserializeAny(TString, st)

DeserializeString(st) ==
    VisitString(ReadRawString(Expect(Expect(Start(st), "s"), ":")))

\* self.input.expect(b'}')?; rval -- rval is looked at only after the
\* closing brace was read, whether it is Ok or Err.
CloseArray(rval) ==
    LET Closed(close) ==
            IF ~close.ok THEN Fail(close.st, close.err)
            ELSE [rval EXCEPT !.st = close.st]
    IN  Closed(Expect(Start(rval.st), "}"))

\* The match with no arm for the closing brace of an empty array.
ArrayKeys_NoEmpty(T, p, num) ==
    IF p.c = <<>> THEN Fail(p.st, UnexpectedEof)
    ELSE CloseArray(CASE p.c[1] = "i" -> VisitSeq(T, p.st, num)
                      [] p.c[1] = "s" -> VisitMap(T, p.st, num)
                      [] OTHER -> Fail(p.st, UnsupportedArrayKeyType(p.c[1])))

\* The match that takes the sequence path for a string tag too.
ArrayKeys_AlwaysSeq(T, p, num) ==
    IF p.c = <<>> THEN Fail(p.st, UnexpectedEof)
    ELSE CloseArray(CASE p.c[1] \in {"i", "}", "s"} -> VisitSeq(T, p.st, num)
                      [] OTHER -> Fail(p.st, UnsupportedArrayKeyType(p.c[1])))

\* The match on the peeked byte in the array arm of deserialize_any.
ArrayKeys(T, p, num) ==
    IF p.c = <<>> THEN Fail(p.st, UnexpectedEof)
    ELSE CloseArray(CASE p.c[1] \in {"i", "}"} -> VisitSeq(T, p.st, num)
                      [] p.c[1] = "s" -> VisitMap(T, p.st, num)
                      [] OTHER -> Fail(p.st, UnsupportedArrayKeyType(p.c[1])))

\* The array arm of deserialize_any, h being the outcome of read_array_header.
ArrayArm(T, h) ==
    IF ~h.ok THEN Fail(h.st, h.err) ELSE ArrayKeys(T, Peek(h.st), h.n)

\* A match on val that takes every byte other than "0" as true.
BoolArm_Lenient(T, r) ==
    IF ~r.ok THEN Fail(r.st, r.err)
    ELSE VisitBool(T, r.st, r.c # "0")

\* The end of the boolean arm: the match on val.
BoolArm(T, r) ==
    IF ~r.ok THEN Fail(r.st, r.err)
    ELSE CASE r.c = "0" -> VisitBool(T, r.st, FALSE)
           [] r.c = "1" -> VisitBool(T, r.st, TRUE)
           [] OTHER -> Fail(r.st, InvalidBooleanValue(r.c))

\* visitor.visit_i64(parse_bytes(buf)?)
IntArm(T, r) == IF ~r.ok THEN Fail(r.st, r.err) ELSE VisitI64(T, r.st, r.n)

\* The optional "." and fraction digits of the float arm.
CollectFraction(r) ==
    IF ~r.ok THEN r ELSE
    LET dot == Peek(r.st) IN
    IF dot.c = <<".">>
    THEN CollectUnsigned(Expect(Push([r EXCEPT !.st = dot.st], "."), "."))
    ELSE [r EXCEPT !.st = dot.st]

\* visitor.visit_f64(parse_bytes(buf)?): the buffer always parses as a float.
FloatArm(T, r) ==
    IF ~r.ok THEN Fail(r.st, r.err) ELSE VisitF64(T, r.st, ParseF64(r.buf))

\* visitor.visit_seq(SeqDeserializer::new(data.into_iter()))
StringArm(T, r) ==
    IF ~r.ok THEN Fail(r.st, r.err) ELSE VisitSeqBytes(T, r.st, r.data)

\* The byte after the type indicator read but not compared with ":".
TypeEnd_Unchecked(sym) ==
    IF ~sym.ok THEN sym
    ELSE IF sym.c = "N" THEN Expect(sym, ";")
    ELSE [Read1(sym) EXCEPT !.c = sym.c]

\* The byte after the type indicator: ";" after "N", ":" after any other.
TypeEnd(sym) ==
    IF ~sym.ok THEN sym
    ELSE IF sym.c = "N" THEN Expect(sym, ";")
    ELSE Expect(sym, ":")

\* visit_unit for "N", and the match on sym for the rest; r.c is sym.
TypeArm(T, r) ==
    IF ~r.ok THEN Fail(r.st, r.err) ELSE
    CASE r.c = "N" -> VisitUnit(T, r.st)
      [] r.c = "b" -> BoolArm(T, Expect(Read1(r), ";"))
      [] r.c = "i" ->
            IntArm(T, ParseBytes(Expect(CollectUnsigned(CollectSign(NewBuf(r))), ";"), "i64"))
      [] r.c = "d" ->
            FloatArm(T, Expect(CollectFraction(CollectUnsigned(CollectSign(NewBuf(r)))), ";"))
      [] r.c = "s" -> StringArm(T, ReadRawString(r))
      [] r.c = "a" -> ArrayArm(T, ReadArrayHeader(r))
      [] r.c = "O" -> Fail(r.st, MissingFeature)
      [] OTHER -> Fail(r.st, InvalidTypeIndicator(r.c))

DeserializeAny(T, st) == TypeArm(T, TypeEnd(Read1(Start(st))))

\* visitor.visit_none() once "N;" is read
OptionNone(r) == IF ~r.ok THEN Fail(r.st, r.err) ELSE Ok(r.st, VNone)

\* visit_some with the value handed on as it is, not as a present optional.
OptionSome_Bare(v) == v

\* visitor.visit_some(self): Option<T>'s visitor wraps T::deserialize(self)
OptionSome(v) == IF ~v.ok THEN v ELSE Ok(v.st, VSome(v.val))

\* deserialize_option that leaves the ";" of the null literal unread.
OptionArm_OneByte(T, p) ==
    IF p.c = <<"N">> THEN OptionNone(Expect(Start(p.st), "N"))
    ELSE OptionSome(Deserialize(T.of, p.st))

\* The branch of deserialize_option on the peeked byte.
OptionArm(T, p) ==
    IF p.c = <<"N">> THEN OptionNone(Expect(Expect(Start(p.st), "N"), ";"))
    ELSE OptionSome(Deserialize(T.of, p.st))

DeserializeOption(T, st) == OptionArm(T, Peek(st))

\* visit_map and the closing brace of deserialize_map.
MapArm(T, h) ==
    IF ~h.ok THEN Fail(h.st, h.err) ELSE CloseArray(VisitMap(T, h.st, h.n))

DeserializeMap(T, st) ==
    MapArm(T, ReadArrayHeader(Expect(Expect(Start(st), "a"), ":")))

\* What next_element_seed / next_key_seed return: some tells Some(value) from
\* None; index is the helper's index afterwards.
Next_(ok, some, val, err, st, index) ==
    [ok |-> ok, some |-> some, val |-> val, err |-> err, st |-> st, index |-> index]

\* seed.deserialize(&mut *self.de).map(Some)
MapSome(v, index) == Next_(v.ok, v.ok, v.val, v.err, v.st, index)

\* ArraySequence::next_element_seed from the index check on, idx being the
\* outcome of usize::deserialize.
ElementAt(T, idx, index) ==
    IF ~idx.ok THEN Next_(FALSE, FALSE, NoValue, idx.err, idx.st, index)
    ELSE IF idx.val.n # index
    THEN Next_(FALSE, FALSE, NoValue, IndexMismatch(index, idx.val.n), idx.st, index)
    ELSE MapSome(Deserialize(T, idx.st), index + 1)

\* A next_element_seed that at the end of the input yields an element without
\* reading one.
NextElementSeed_Padded(T, st, num, index) ==
    IF num = index THEN Next_(TRUE, FALSE, NoValue, NoErr, st, index)
    ELSE IF Peek(st).c = <<>> THEN Next_(TRUE, TRUE, VIgnored, NoErr, st, index + 1)
    ELSE ElementAt(T, Deserialize(TInt("usize"), st), index)

NextElementSeed(T, st, num, index) ==
    IF num = index THEN Next_(TRUE, FALSE, NoValue, NoErr, st, index)
    ELSE ElementAt(T, Deserialize(TInt("usize"), st), index)

\* seed.deserialize(key.into_deserializer()), key being the outcome of
\* String::deserialize.
KeyOfString(K, key) ==
    IF ~key.ok THEN key ELSE FromString(K, key.st, key.val.s)

\* next_key_seed that decodes every key as a string, whatever its tag.
KeyArm_TextOnly(K, p, index) ==
    MapSome(KeyOfString(K, DeserializeString(p.st)), index)

\* ArrayMapping::next_key_seed, the branch on the peeked byte.
KeyArm(K, p, index) ==
    IF p.c = <<"i">> THEN MapSome(Deserialize(K, p.st), index)
    ELSE MapSome(KeyOfString(K, DeserializeString(p.st)), index)

\* ArrayMapping::next_key_seed for a key of type K.
NextKeySeed(K, st, num, index) ==
    IF index = num THEN Next_(TRUE, FALSE, NoValue, NoErr, st, index)
    ELSE KeyArm(K, Peek(st), index)

\* Vec<T>'s visitor (and IgnoredAny's) over an ArraySequence: next_element
\* until None.
SeqPush(T, e, num, acc) ==
    IF ~e.ok THEN Fail(e.st, e.err)
    ELSE IF ~e.some THEN Ok(e.st, VSeq(acc))
    ELSE SeqElements(T, e.st, num, e.index, Append(acc, e.val))

SeqElements(T, st, num, index, acc) ==
    SeqPush(T, NextElementSeed(T, st, num, index), num, acc)

\* A tuple's (or tuple struct's) visitor: one next_element per component, and
\* invalid_length when the sequence ends early.
TuplePush(ts, e, num, acc) ==
    IF ~e.ok THEN Fail(e.st, e.err)
    ELSE IF ~e.some THEN Fail(e.st, DeserializationFailed)
    ELSE TupleElements(ts, e.st, num, e.index, Append(acc, e.val))

TupleElements(ts, st, num, index, acc) ==
    IF Len(acc) = Len(ts) THEN Ok(st, VSeq(acc))
    ELSE TuplePush(ts, NextElementSeed(ts[Len(acc) + 1], st, num, index), num, acc)

\* IgnoredAny's visit_seq drops the elements.
IgnoreSeq(r) == IF r.ok THEN Ok(r.st, VIgnored) ELSE r

\* The byte of a u8, among the bytes of the model.
ByteOf(n) == CHOOSE c \in ByteTokens : ByteVal(c) = n

\* The byte string visitor's visit_seq collects the u8 elements.
BytesOfSeq(r) ==
    IF r.ok THEN Ok(r.st, VBytes([i \in 1..Len(r.val.items) |-> ByteOf(r.val.items[i].n)]))
    ELSE r

VisitSeq(T, st, num) ==
    CASE T.k = "vec" -> SeqElements(T.of, st, num, 0, <<>>)
      [] T.k = "bytes" -> BytesOfSeq(SeqElements(TInt("u8"), st, num, 0, <<>>))
      [] T.k = "tuple" -> TupleElements(T.elems, st, num, 0, <<>>)
      [] T.k = "ignored" -> IgnoreSeq(SeqElements(TIgnored, st, num, 0, <<>>))
      [] OTHER -> Fail(st, DeserializationFailed)

\* The key and value types of the map visitors: HashMap<String, V>,
\* BTreeMap<usize, V>, IgnoredAny.
KeyType(T) ==
    CASE T.k = "map" -> TString
      [] T.k = "btree" -> TInt("usize")
      [] OTHER -> TIgnored

ValueType(T) == IF T.k = "ignored" THEN TIgnored ELSE T.of

\* map.insert(key, value), v being the outcome of next_value (which counted
\* the pair).
MapPush(T, key, v, num, index, acc) ==
    IF ~v.ok THEN Fail(v.st, v.err)
    ELSE MapEntries(T, v.st, num, index + 1,
                    CASE T.k = "map" -> MapInsert(acc, key.val.s, v.val)
                      [] T.k = "btree" -> BTreeInsert(acc, key.val.n, v.val)
                      [] OTHER -> acc)

\* The map visitors' loop from the outcome of next_key on.
MapValue(T, key, num, index, acc) ==
    IF ~key.ok THEN Fail(key.st, key.err)
    ELSE IF ~key.some THEN
        Ok(key.st, CASE T.k = "map" -> VMap(acc)
                     [] T.k = "btree" -> VBTree(acc)
                     [] OTHER -> VIgnored)
    ELSE MapPush(T, key, Deserialize(ValueType(T), key.st), num, index, acc)

\* The visitors of HashMap<String, _>, BTreeMap<usize, _> and IgnoredAny over
\* an ArrayMapping: next_key, next_value, insert.
MapEntries(T, st, num, index, acc) ==
    MapValue(T, NextKeySeed(KeyType(T), st, num, index), num, index, acc)

\* A known field's value is kept, an unknown key's value is dropped.
StructPush(fields, i, v, num, index, got) ==
    IF ~v.ok THEN Fail(v.st, v.err)
    ELSE StructEntries(fields, v.st, num, index + 1,
                       IF i = 0 THEN got ELSE [got EXCEPT ![i] = <<v.val>>])

\* A derived record visitor's visit_map from the outcome of next_key on.
\* got[i] is <<>> until field i is read; a repeated field is duplicate_field,
\* an unknown key's value is read as IgnoredAny, and a field never read is
\* missing_field unless it is an Option.
StructValue(fields, key, num, index, got) ==
    IF ~key.ok THEN Fail(key.st, key.err)
    ELSE IF ~key.some THEN
        IF \E i \in 1..Len(fields) : got[i] = <<>> /\ fields[i].fty.k # "option"
        THEN Fail(key.st, DeserializationFailed)
        ELSE Ok(key.st, VStruct([i \in 1..Len(fields) |->
                                    IF got[i] = <<>> THEN VNone ELSE got[i][1]]))
    ELSE IF key.val.i = 0
    THEN StructPush(fields, 0, Deserialize(TIgnored, key.st), num, index, got)
    ELSE IF got[key.val.i] # <<>> THEN Fail(key.st, DeserializationFailed)
    ELSE StructPush(fields, key.val.i, Deserialize(fields[key.val.i].fty, key.st),
                    num, index, got)

StructEntries(fields, st, num, index, got) ==
    StructValue(fields, NextKeySeed(TFieldId(fields), st, num, index), num, index, got)

VisitMap(T, st, num) ==
    CASE T.k \in {"map", "btree", "ignored"} -> MapEntries(T, st, num, 0, <<>>)
      [] T.k = "struct" ->
            StructEntries(T.fields, st, num, 0, [i \in 1..Len(T.fields) |-> <<>>])
      [] OTHER -> Fail(st, DeserializationFailed)

\* v.into_iter().map(|(_, v)| v).collect()
IntoValues(v) ==
    IF ~v.ok THEN v
    ELSE Ok(v.st, VSeq([i \in 1..Len(v.val.ientries) |-> v.val.ientries[i].val]))

\* deserialize_unordered_array: a BTreeMap<usize, T>, then its values in key
\* order.
DeserializeUnorderedArray(T, st) == IntoValues(Deserialize(TBTreeMap(T), st))

\* visitor.visit_newtype_struct(self): the wrapper's visitor wraps the inner value.
VisitNewtypeStruct(r) == IF ~r.ok THEN r ELSE Ok(r.st, VNewtype(r.val))

\* T::deserialize(&mut PhpDeserializer): the deserialize_* method each type
\* asks for; those the deserializer does not define forward to
\* deserialize_any.
Deserialize(T, st) ==
    CASE T.k = "char" -> DeserializeChar(st)
      [] T.k = "string" -> DeserializeString(st)
      [] T.k = "option" -> DeserializeOption(T, st)
      [] T.k \in {"struct", "map", "btree"} -> DeserializeMap(T, st)
      [] T.k = "newtype" -> VisitNewtypeStruct(Deserialize(T.of, st))
      [] T.k = "unordered" -> VisitNewtypeStruct(DeserializeUnorderedArray(T.of, st))
      [] OTHER -> DeserializeAny(T, st)

\* from_bytes that refuses input with bytes left after the value.
FromBytes_Whole(T, s) ==
    LET Ended(v) ==
            IF v.ok /\ Peek(v.st).c # <<>> THEN Fail(Peek(v.st).st, DeserializationFailed)
            ELSE v
    IN  Ended(Deserialize(T, NewReader(s)))

\* from_bytes::<T>(s)
FromBytes(T, s) == Deserialize(T, NewReader(s))


----------------------------------------------------------------------------
(* PhpSerializer and NumericArraySerializer.  The sink is a Vec<u8>, whose *)
(* writes never fail; out is the sink's content.                           *)

\* Display of an unsigned / signed integer.
RECURSIVE FormatNat(_)
FormatNat(n) == IF n < 10 THEN <<DigitChar(n)>> ELSE Append(FormatNat(n \div 10), DigitChar(n % 10))

FormatInt(n) == IF n < 0 THEN <<"-">> \o FormatNat(0 - n) ELSE FormatNat(n)

RECURSIVE Pow10(_)
Pow10(n) == IF n = 0 THEN 1 ELSE 10 * Pow10(n - 1)

\* The fraction's digits, with its leading zeros.
RECURSIVE FormatFrac(_, _)
FormatFrac(n, width) ==
    IF width = 0 THEN <<>> ELSE Append(FormatFrac(n \div 10, width - 1), DigitChar(n % 10))

\* Debug of an f64: a whole number keeps `.0`.
FormatF64_Debug(x) ==
    LET mag == IF x.num < 0 THEN 0 - x.num ELSE x.num
        sign == IF x.num < 0 THEN <<"-">> ELSE <<>>
    IN  sign \o FormatNat(mag \div Pow10(x.scale))
             \o <<".">> \o (IF x.scale = 0 THEN <<"0">>
                             ELSE FormatFrac(mag % Pow10(x.scale), x.scale))

\* Display of an f64: no fractional part for a whole number.
FormatF64(x) ==
    LET mag == IF x.num < 0 THEN 0 - x.num ELSE x.num
        sign == IF x.num < 0 THEN <<"-">> ELSE <<>>
    IN  sign \o FormatNat(mag \div Pow10(x.scale))
             \o (IF x.scale = 0 THEN <<>>
                 ELSE <<".">> \o FormatFrac(mag % Pow10(x.scale), x.scale))

SerOk(out) == [ok |-> TRUE, out |-> out, err |-> NoErr]
SerFail(out, e) == [ok |-> FALSE, out |-> out, err |-> e]

SerializeUnit(out) == SerOk(out \o <<"N", ";">>)
SerializeBool(out, b) == SerOk(out \o (IF b THEN <<"b", ":", "1", ";">> ELSE <<"b", ":", "0", ";">>))
\* serialize_i64 with the sign lost: the magnitude is written.
SerializeI64_Unsigned(out, n) ==
    SerOk(out \o <<"i", ":">> \o FormatNat(IF n < 0 THEN 0 - n ELSE n) \o <<";">>)
SerializeI64(out, n) == SerOk(out \o <<"i", ":">> \o FormatInt(n) \o <<";">>)
\* serialize_u64 that writes the value cast to i64.
SerializeU64_Cast(out, n) ==
    SerializeI64(out, IF n > IntMax("i64") THEN n - Pow2(WordBits) ELSE n)
SerializeU64(out, n) == SerOk(out \o <<"i", ":">> \o FormatNat(n) \o <<";">>)
SerializeF64(out, x) == SerOk(out \o <<"d", ":">> \o FormatF64(x) \o <<";">>)
SerializeChar(out, code) == SerializeU64(out, code)
\* serialize_bytes with the number of characters as the length.
SerializeBytes_CharCount(out, v) ==
    SerOk(out \o <<"s", ":">> \o FormatNat(Len(SelectSeq(v, LAMBDA c : c # "xA9")))
              \o <<":", "\"">> \o v \o <<"\"", ";">>)
SerializeBytes(out, v) ==
    SerOk(out \o <<"s", ":">> \o FormatNat(Len(v)) \o <<":", "\"">> \o v \o <<"\"", ";">>)
SerializeStr(out, v) == SerializeBytes(out, v)
SerializeNone(out) == SerializeUnit(out)
\* serialize_unit_struct that writes the unit's null literal.
SerializeUnitStruct_AsUnit(out) == SerializeUnit(out)
SerializeUnitStruct(out) == SerFail(out, MissingFeature)
SerializeUnitVariant(out) == SerFail(out, MissingFeature)
SerializeNewtypeVariant(out) == SerFail(out, MissingFeature)
SerializeTupleVariant(out) == SerFail(out, MissingFeature)
SerializeStructVariant(out) == SerFail(out, MissingFeature)

\* serialize_seq(Some(n)) and serialize_map(Some(n)): the header.
SerializeSeqHeader(out, n) == SerOk(out \o <<"a", ":">> \o FormatNat(n) \o <<":", "{">>)
SerializeMapHeader(out, n) == SerOk(out \o <<"a", ":">> \o FormatNat(n) \o <<":", "{">>)
\* serialize_seq that writes the tag before it looks at the length.
SerializeSeq_TagFirst(out, len) ==
    IF len # <<>> THEN SerializeSeqHeader(out, len[1])
    ELSE SerFail(out \o <<"a", ":">>, LengthRequired)
\* serialize_seq(len) and serialize_map(len): len is <<n>> for Some(n) and <<>>
\* for None.
SerializeSeq(out, len) ==
    IF len # <<>> THEN SerializeSeqHeader(out, len[1]) ELSE SerFail(out, LengthRequired)
SerializeMap(out, len) ==
    IF len # <<>> THEN SerializeMapHeader(out, len[1]) ELSE SerFail(out, LengthRequired)
SerializeTuple(out, len) == SerializeSeq(out, <<len>>)
SerializeStruct(out, len) == SerializeMap(out, <<len>>)
\* end() with the closing brace forgotten.
SerializeEnd_Open(out) == SerOk(out)
SerializeEnd(out) == SerOk(out \o <<"}">>)

RECURSIVE Serialize(_, _, _), SerializeElements(_, _, _, _), SerializeEntries(_, _, _, _),
          SerializeFields(_, _, _, _), SerializeElements_NoCount(_, _, _, _),
          SerializeFields_Indexed(_, _, _, _), SerializeEntries_TextKeys(_, _, _, _)

\* serialize_element without `self.index += 1`: every key is 0.
SerializeElements_NoCount(Ts, items, index, out) ==
    IF index = Len(items) THEN SerOk(out)
    ELSE
    LET key == SerializeU64(out, 0) IN
    LET v == Serialize(Ts[index + 1], items[index + 1], key.out) IN
    IF ~v.ok THEN v ELSE SerializeElements_NoCount(Ts, items, index + 1, v.out)

\* NumericArraySerializer::serialize_element for each element from position
\* index + 1 on: the index as a key, the value, index += 1.  Ts(i) is the type
\* of element i.
SerializeElements(Ts, items, index, out) ==
    IF index = Len(items) THEN SerOk(out)
    ELSE
    LET key == SerializeU64(out, index) IN
    IF ~key.ok THEN key ELSE
    LET v == Serialize(Ts[index + 1], items[index + 1], key.out) IN
    IF ~v.ok THEN v ELSE SerializeElements(Ts, items, index + 1, v.out)

\* serialize_key that writes every key as a string: an integer key as the
\* text of its digits.
SerializeEntries_TextKeys(K, V, entries, out) ==
    IF entries = <<>> THEN SerOk(out)
    ELSE
    LET e == Head(entries)
        key == IF K.k = "string" THEN SerializeStr(out, e.key)
               ELSE SerializeStr(out, FormatNat(e.ikey))
    IN
    LET v == Serialize(V, e.val, key.out) IN
    IF ~v.ok THEN v ELSE SerializeEntries_TextKeys(K, V, Tail(entries), v.out)

\* SerializeMap::serialize_key and serialize_value for each entry, K the type
\* of the keys.
SerializeEntries(K, V, entries, out) ==
    IF entries = <<>> THEN SerOk(out)
    ELSE
    LET e == Head(entries)
        key == IF K.k = "string" THEN SerializeStr(out, e.key) ELSE SerializeU64(out, e.ikey)
    IN
    IF ~key.ok THEN key ELSE
    LET v == Serialize(V, e.val, key.out) IN
    IF ~v.ok THEN v ELSE SerializeEntries(K, V, Tail(entries), v.out)

\* serialize_field with the field's position as the key, as for a sequence.
SerializeFields_Indexed(fields, fvals, i, out) ==
    IF i > Len(fields) THEN SerOk(out)
    ELSE
    LET key == SerializeU64(out, i - 1) IN
    LET v == Serialize(fields[i].fty, fvals[i], key.out) IN
    IF ~v.ok THEN v ELSE SerializeFields_Indexed(fields, fvals, i + 1, v.out)

\* SerializeStruct::serialize_field for each field from position i on.
SerializeFields(fields, fvals, i, out) ==
    IF i > Len(fields) THEN SerOk(out)
    ELSE
    LET key == SerializeStr(out, fields[i].name) IN
    IF ~key.ok THEN key ELSE
    LET v == Serialize(fields[i].fty, fvals[i], key.out) IN
    IF ~v.ok THEN v ELSE SerializeFields(fields, fvals, i + 1, v.out)

\* <T as Serialize>::serialize(&mut PhpSerializer) for a value v of type T.
Serialize(T, v, out) ==
    CASE T.k = "unit" -> SerializeUnit(out)
      [] T.k = "bool" -> SerializeBool(out, v.b)
      [] T.k = "int" -> IF Signed(T.t) THEN SerializeI64(out, v.n) ELSE SerializeU64(out, v.n)
      [] T.k = "f64" -> SerializeF64(out, v)
      [] T.k = "char" -> SerializeChar(out, v.code)
      [] T.k = "string" -> SerializeStr(out, v.s)
      [] T.k = "bytes" -> SerializeBytes(out, v.s)
      [] T.k = "option" ->
            IF v.k = "none" THEN SerializeNone(out) ELSE Serialize(T.of, v.v, out)
      [] T.k = "newtype" -> Serialize(T.of, v.v, out)
      [] T.k = "unitstruct" -> SerializeUnitStruct(out)
      [] T.k = "unitvariant" -> SerializeUnitVariant(out)
      [] T.k = "newtypevariant" -> SerializeNewtypeVariant(out)
      [] T.k = "tuplevariant" -> SerializeTupleVariant(out)
      [] T.k = "structvariant" -> SerializeStructVariant(out)
      [] T.k \in {"vec", "iter"} ->
            LET h == SerializeSeq(out, IF T.k = "vec" THEN <<Len(v.items)>> ELSE <<>>) IN
            IF ~h.ok THEN h ELSE
            LET b == SerializeElements([i \in 1..Len(v.items) |-> T.of], v.items, 0, h.out) IN
            IF ~b.ok THEN b ELSE SerializeEnd(b.out)
      [] T.k = "tuple" ->
            LET h == SerializeTuple(out, Len(T.elems)) IN
            IF ~h.ok THEN h ELSE
            LET b == SerializeElements(T.elems, v.items, 0, h.out) IN
            IF ~b.ok THEN b ELSE SerializeEnd(b.out)
      [] T.k \in {"map", "itermap"} ->
            LET h == SerializeMap(out, IF T.k = "map" THEN <<Len(v.entries)>> ELSE <<>>) IN
            IF ~h.ok THEN h ELSE
            LET b == SerializeEntries(TString, T.of, v.entries, h.out) IN
            IF ~b.ok THEN b ELSE SerializeEnd(b.out)
      [] T.k = "btree" ->
            LET h == SerializeMap(out, <<Len(v.ientries)>>) IN
            IF ~h.ok THEN h ELSE
            LET b == SerializeEntries(TInt("usize"), T.of, v.ientries, h.out) IN
            IF ~b.ok THEN b ELSE SerializeEnd(b.out)
      [] T.k = "struct" ->
            LET h == SerializeStruct(out, Len(T.fields)) IN
            IF ~h.ok THEN h ELSE
            LET b == SerializeFields(T.fields, v.fvals, 1, h.out) IN
            IF ~b.ok THEN b ELSE SerializeEnd(b.out)

\* to_vec(&value)
ToVec(T, v) == Serialize(T, v, <<>>)


----------------------------------------------------------------------------
(* The values and inputs the runs start from.                              *)

SeqsUpTo(S, n) == UNION {[1..m -> S] : m \in 0..n}

\* All sequences t with t[i] \in sets[i].
RECURSIVE SeqProduct(_)
SeqProduct(sets) ==
    IF sets = <<>> THEN {<<>>}
    ELSE {<<x>> \o t : x \in Head(sets), t \in SeqProduct(Tail(sets))}

StrAlphabet == {"a", "b", "\"", ";", "xC3", "xA9"}
\* The text strings: the valid UTF-8 among the short byte strings.
Strings == {s \in SeqsUpTo(StrAlphabet, MaxStrLen) : Utf8Valid(s)}
\* The strings drawn inside an aggregate: empty, PHP's delimiters, a two-byte
\* character.
SampleStrings == Strings \cap {<<>>, <<"\"", ";">>, <<"xC3", "xA9">>}
\* The byte strings: any bytes, valid UTF-8 or not.
ByteStrings == SeqsUpTo(StrAlphabet \cup {"xFF"}, MaxStrLen)
SampleByteStrings == ByteStrings \cap {<<>>, <<"\"", ";">>, <<"xFF">>}
MapKeys == {<<>>, <<"a">>, <<"a", "b">>}

Min(a, b) == IF a < b THEN a ELSE b

\* The values of type T: every value of a scalar at the top (full), the
\* boundary values inside an aggregate; a collection holds up to n elements,
\* a collection inside a collection up to one.
RECURSIVE Vals(_, _, _)
Vals(T, full, n) ==
    CASE T.k = "unit" -> {VUnit}
      [] T.k = "unitstruct" -> {VUnitStruct}
      [] T.k = "unitvariant" -> {VVariant(VUnit)}
      [] T.k = "newtypevariant" -> {VVariant(v) : v \in Vals(T.of, full, n)}
      [] T.k = "tuplevariant" -> {VVariant(v) : v \in Vals(TTuple(T.elems), full, n)}
      [] T.k = "structvariant" -> {VVariant(v) : v \in Vals(TStruct(T.fields), full, n)}
      [] T.k = "bool" -> {VBool(TRUE), VBool(FALSE)}
      [] T.k = "int" ->
            IF full THEN {VInt(m) : m \in IntMin(T.t)..IntMax(T.t)}
            ELSE {VInt(IntMin(T.t)), VInt(Min(IntMax(T.t), IntMax("i64") - 1))}
      [] T.k = "f64" ->
            IF full THEN {VF64(m, sc) : m \in (0 - MaxFloat)..MaxFloat, sc \in {0, 1}}
                         \cap {VF64(NormF64(m, sc).num, NormF64(m, sc).scale) :
                                 m \in (0 - MaxFloat)..MaxFloat, sc \in {0, 1}}
            ELSE {VF64(5, 0), VF64(19, 1)}
      [] T.k = "char" ->
            IF full THEN {VChar(m) : m \in {c \in 0..CharMax : IsChar(c)}}
            ELSE {VChar(0), VChar(CharMax)}
      [] T.k = "string" -> IF full THEN {VStr(s) : s \in Strings}
                           ELSE {VStr(s) : s \in SampleStrings}
      [] T.k = "bytes" -> IF full THEN {VBytes(s) : s \in ByteStrings}
                          ELSE {VBytes(s) : s \in SampleByteStrings}
      [] T.k = "option" -> {VNone} \cup {VSome(v) : v \in Vals(T.of, full, n)}
      [] T.k = "newtype" -> {VNewtype(v) : v \in Vals(T.of, full, n)}
      [] T.k \in {"vec", "iter"} -> {VSeq(s) : s \in SeqsUpTo(Vals(T.of, FALSE, Min(n, 1)), n)}
      [] T.k = "tuple" ->
            {VSeq(s) : s \in SeqProduct([i \in 1..Len(T.elems) |-> Vals(T.elems[i], FALSE, n)])}
      [] T.k \in {"map", "itermap"} ->
            LET E == {[key |-> key, val |-> v] :
                        key \in MapKeys, v \in Vals(T.of, FALSE, Min(n, 1))} IN
            {VMap(s) : s \in {e \in SeqsUpTo(E, n) :
                                \A i, j \in 1..Len(e) : i # j => e[i].key # e[j].key}}
      [] T.k = "btree" ->
            LET E == {[ikey |-> key, val |-> v] :
                        key \in 0..MaxKey, v \in Vals(T.of, FALSE, Min(n, 1))} IN
            {VBTree(s) : s \in {e \in SeqsUpTo(E, n) :
                                  \A i, j \in 1..Len(e) : i < j => e[i].ikey < e[j].ikey}}
      [] T.k = "struct" ->
            {VStruct(s) : s \in SeqProduct([i \in 1..Len(T.fields) |->
                                              Vals(T.fields[i].fty, FALSE, n)])}

\* The types of the round-trip tests (lib.rs) and of the crate's examples.
ScalarTypes ==
    {TUnit, TBool, TChar, TString, TBytes, TVec(TInt("u8"))}
    \cup {TInt(t) : t \in IntTypes \ {"usize"}}
    \cup {TNewtype(TInt("i32")), TNewtype(TString), TNewtype(TNewtype(TBool))}

UserProfile ==
    TStruct(<<TField(<<"i", "d">>, TInt("u32")), TField(<<"n", "a", "m", "e">>, TString),
              TField(<<"t", "a", "g", "s">>, TVec(TString))>>)
\* UserProfile { id: 42, name: "Bob", tags: vec!["foo", "bar"] }
ExampleProfile ==
    VStruct(<<VInt(42), VStr(<<"B", "o", "b">>),
              VSeq(<<VStr(<<"f", "o", "o">>), VStr(<<"b", "a", "r">>)>>)>>)
\* The values of the crate's examples, by type.
Examples(T) == IF T = UserProfile THEN {ExampleProfile} ELSE {}
Location ==
    TStruct(<<TField(<<"a">>, TOption(TString)), TField(<<"b">>, TOption(TString))>>)
Inner == TStruct(<<TField(<<"x">>, TInt("i64"))>>)
\* struct Data(bytes, bytes, SubData), SubData a tuple struct of no fields
SubData == TTuple(<<>>)
Data == TTuple(<<TBytes, TBytes, SubData>>)
Outer == TStruct(<<TField(<<"a">>, TBool), TField(<<"s">>, Inner)>>)

AggregateTypes ==
    {TTuple(<<TInt("u32"), TInt("u32")>>), TTuple(<<TString, TInt("i32")>>),
     TTuple(<<>>), TTuple(<<TChar, TVec(TInt("i8")), TUnit>>), Data,
     TVec(TString), TVec(TVec(TInt("u64"))), TVec(TTuple(<<TBool>>)),
     TMap(TString), TMap(TVec(TInt("i16"))), TVec(TMap(TInt("u16"))),
     TVec(TOption(TUnit)), TBTreeMap(TString), UserProfile, Location, Outer, TStruct(<<>>), TNewtype(Inner)}

OptionTypes ==
    {TOption(TInt("i32")), TOption(TUnit), TOption(TOption(TInt("i8"))),
     TOption(TString), TOption(TVec(TInt("u8"))), TOption(TNewtype(TUnit)),
     TOption(Inner), TOption(TBool), TOption(TChar), TNewtype(TOption(TUnit))}

\* Aggregates of unknown length, at the top and as the second element of a
\* tuple.
Chunked == TTuple(<<TString, TIter(TString)>>)
UnknownLengthTypes == {TIter(TString), TIter(TBool), TIterMap(TString), Chunked}

\* The unit struct and the four forms of variant, at the top and inside a
\* tuple and a sequence.
Marked == TTuple(<<TBool, TUnitStruct>>)
UnsupportedTypes ==
    {TUnitStruct, TUnitVariant, TNewtypeVariant(TString), TTupleVariant(<<TBool, TBool>>),
     TStructVariant(<<TField(<<"x">>, TInt("i64"))>>), Marked, TVec(TNewtypeVariant(TBool))}

\* f64, and the Vec<f64> of the test serialize_variable_length.
FloatTypes == {TF64, TVec(TF64)}

ValueTypes ==
    ScalarTypes \cup AggregateTypes \cup OptionTypes \cup UnknownLengthTypes
        \cup UnsupportedTypes \cup FloatTypes

\* Raw inputs: a first byte and a short tail.
FirstBytes == {"N", "b", "i", "d", "s", "a", "O", "x", ";", "0", "}"}
TailAlphabet == {":", ";", "1", "N"}
Tails == SeqsUpTo(TailAlphabet, MaxTailLen)
RawInputs == {<<>>} \cup {<<f>> \o t : f \in FirstBytes, t \in Tails}

\* Array headers followed by a first key tag of any kind.
KeyTags == {"b", "d", "N", "a", "O", "x", "0", ";", ":", "i", "s", "}"}
ArrayKeyInputs ==
    {<<"a", ":", n, ":", "{">> : n \in {"0", "1", "2"}}
    \cup {<<"a", ":", n, ":", "{", c>> \o t :
            n \in {"0", "1", "2"}, c \in KeyTags, t \in {u \in Tails : Len(u) < MaxTailLen}}

\* Integer-keyed arrays with any keys in any order: the value of the j-th pair
\* is the one-byte string Letter(j).
Letters == <<"a", "b", "x", "s", "i", "d", "N", "O">>
Letter(j) == Letters[((j - 1) % Len(Letters)) + 1]
KeySeqs == SeqsUpTo(0..MaxKey, MaxKeys)
KeyedPair(key, j) ==
    <<"i", ":">> \o FormatNat(key) \o <<";", "s", ":", "1", ":", "\"", Letter(j), "\"", ";">>
KeyedWire(ks) ==
    <<"a", ":">> \o FormatNat(Len(ks)) \o <<":", "{">>
        \o Concat([j \in 1..Len(ks) |-> KeyedPair(ks[j], j)]) \o <<"}">>
\* The same arrays cut right after the last key.
KeyOnlyWire(ks) ==
    <<"a", ":">> \o FormatNat(Len(ks)) \o <<":", "{">>
        \o Concat([j \in 1..Len(ks) |->
                     IF j < Len(ks) THEN KeyedPair(ks[j], j)
                     ELSE <<"i", ":">> \o FormatNat(ks[j]) \o <<";">>]) \o <<"}">>
\* The key sequence of the test deserialize_array_unordered_with_holes.
ExampleKeys == <<0, 2, 1, 6>>
AllKeySeqs == KeySeqs \cup {ExampleKeys}
KeyedInputs ==
    {KeyedWire(ks) : ks \in AllKeySeqs} \cup {KeyOnlyWire(ks) : ks \in AllKeySeqs \ {<<>>}}

\* Wire strings: `s:<L>:"` and any bytes after it, the delimiters and a byte
\* that is not UTF-8 among them.
RestAlphabet == {"\"", ";", "xFF"}
StringInputs ==
    {<<"s", ":", DigitChar(L), ":", "\"">> \o rest :
        L \in 0..(MaxRestLen - 1), rest \in SeqsUpTo(RestAlphabet, MaxRestLen)}
StringTargets == {TString, TBytes, TVec(TInt("u8"))}

\* Wire floats: `d:`, any short text of signs, digits and dots, `;`.
FloatAlphabet == {"5", "0", ".", "-", "+"}
FloatInputs == {<<"d", ":">> \o body \o <<";">> : body \in SeqsUpTo(FloatAlphabet, MaxFloatLen)}

\* String-keyed arrays of one pair, and the same cut right after the key; a
\* key that is the text of a number among them.
TextKeys == {<<>>, <<"a">>, <<"1">>}
TextKeyedWire(key) ==
    <<"a", ":", "1", ":", "{">> \o SerializeStr(<<>>, key).out
        \o SerializeStr(<<>>, <<"b">>).out \o <<"}">>
TextKeyOnlyWire(key) ==
    <<"a", ":", "1", ":", "{">> \o SerializeStr(<<>>, key).out \o <<"}">>
TextKeyedInputs ==
    {TextKeyedWire(key) : key \in TextKeys} \cup {TextKeyOnlyWire(key) : key \in TextKeys}
TextKeyedTypes == {TBTreeMap(TString), TMap(TString), TIgnored}

\* Arrays whose declared count and body are chosen apart: `a:<n>:{`, up to
\* MaxItems pairs and `}`.  The j-th pair has the integer key j-1 or the text
\* key Letter(j), by kinds[j], and the value "x".
MaxItems == 2
MaxCount == 3
KeyKinds == {"int", "str"}
CountedPair(kind, j) ==
    (IF kind = "int" THEN <<"i", ":">> \o FormatNat(j - 1) \o <<";">>
     ELSE <<"s", ":", "1", ":", "\"", Letter(j), "\"", ";">>)
        \o <<"s", ":", "1", ":", "\"", "x", "\"", ";">>
CountedWire(n, kinds) ==
    <<"a", ":">> \o FormatNat(n) \o <<":", "{">>
        \o Concat([j \in 1..Len(kinds) |-> CountedPair(kinds[j], j)]) \o <<"}">>
CountedInputs ==
    {CountedWire(n, kinds) : n \in 0..MaxCount, kinds \in SeqsUpTo(KeyKinds, MaxItems)}
CountedTypes ==
    {TVec(TString), TTuple(<<TString>>), TTuple(<<>>), TIgnored, TMap(TString),
     TBTreeMap(TString)}

\* Wire booleans: `b:`, a value byte of any kind, and what follows it.
BoolValues == {"0", "1", "2", "x", ";", "N"}
BoolRests == {<<>>, <<";">>, <<"x">>, <<"1">>, <<";", ";">>, <<"x", ";">>}
BoolInputs == {<<"b", ":", v>> \o rest : v \in BoolValues, rest \in BoolRests}
BoolTargets == {TBool, TIgnored, TInt("i64"), TOption(TBool), TVec(TBool)}

\* Complete wires cut short: a wire is a sequence of parts, each plain bytes
\* or the body of a string (the bytes between its quotes), with the type it
\* decodes into; the inputs are its proper prefixes.
Plain(bytes) == [bytes |-> bytes, body |-> FALSE]
Body(bytes) == [bytes |-> bytes, body |-> TRUE]
WireString(data) ==
    <<Plain(<<"s", ":">> \o FormatNat(Len(data)) \o <<":", "\"">>), Body(data),
      Plain(<<"\"", ";">>)>>
WholeWires ==
    {[ty |-> TUnit, parts |-> <<Plain(<<"N", ";">>)>>],
     [ty |-> TBool, parts |-> <<Plain(<<"b", ":", "1", ";">>)>>],
     [ty |-> TInt("i64"), parts |-> <<Plain(<<"i", ":", "-", "1", "2", ";">>)>>],
     [ty |-> TF64, parts |-> <<Plain(<<"d", ":", "1", ".", "5", ";">>)>>],
     [ty |-> TChar, parts |-> <<Plain(<<"i", ":", "9", "7", ";">>)>>],
     [ty |-> TString, parts |-> WireString(<<"a", "b">>)],
     [ty |-> TString, parts |-> WireString(<<>>)],
     [ty |-> TBytes, parts |-> WireString(<<"a", "b">>)],
     [ty |-> TOption(TString), parts |-> WireString(<<"a", "b">>)],
     [ty |-> TVec(TString),
      parts |-> <<Plain(<<"a", ":", "1", ":", "{", "i", ":", "0", ";">>)>>
                    \o WireString(<<"a", "b">>) \o <<Plain(<<"}">>)>>],
     [ty |-> TMap(TString),
      parts |-> <<Plain(<<"a", ":", "1", ":", "{">>)>> \o WireString(<<"a">>)
                    \o WireString(<<"a", "b">>) \o <<Plain(<<"}">>)>>]}
WireBytes(w) == Concat([i \in 1..Len(w.parts) |-> w.parts[i].bytes])
TruncatedInputs(w) == {SubSeq(WireBytes(w), 1, k) : k \in 0..(Len(WireBytes(w)) - 1)}

Unordered == TUnordered(TString)

\* The target types of the decodes that start from raw bytes.
WireTypes ==
    {TUnit, TUnitStruct, TBool, TInt("i64"), TF64, TChar, TString, TIgnored,
     TVec(TString), TTuple(<<TString, TString>>), TTuple(<<>>), TMap(TString), Location,
     Unordered, TNewtype(TInt("i32")), TNewtype(TUnit), TNewtype(TString),
     TOption(TInt("i32")), TOption(TString), TOption(TUnit), TOption(TOption(TBool)),
     TOption(Location)}

KeyedTypes ==
    {TVec(TString), TTuple(<<TString, TString>>), Unordered, TBTreeMap(TString),
     TMap(TString), TIgnored, TOption(TVec(TString))}

NotEncoded == [ok |-> FALSE, out |-> <<>>, err |-> NoErr]
NotDecoded == Fail(NewReader(<<>>), NoErr)
\* No loop is running: num_elements and index of the array helper, the digit
\* buffer of collect_unsigned, the elements the visitor holds.
NoLoop == [num |-> 0, index |-> 0, buf |-> <<>>, acc |-> <<>>]
\* No call was made on the reader yet.
NoCall == [op |-> "", c |-> <<>>, buffered |-> <<>>, n |-> 0]

----------------------------------------------------------------------------
(* The state machine: to_vec on a typed value and from_bytes on its        *)
(* output, or from_bytes on raw input.                                     *)

Init ==
    /\ encoded = NotEncoded
    /\ result = NotDecoded
    /\ lookahead = NewReader(<<>>) /\ returned = <<>> /\ call = NoCall /\ loop = NoLoop
    /\ steps = 0
    /\ \/ /\ pc = "value"
          /\ ty \in ValueTypes
          /\ value \in Vals(ty, TRUE, MaxSeqLen) \cup Examples(ty)
          /\ input = <<>>
       \/ /\ pc = "bytes"
          /\ value = NoValue
          /\ \/ ty \in WireTypes /\ input \in RawInputs \cup ArrayKeyInputs
             \/ ty \in KeyedTypes /\ input \in KeyedInputs
             \/ ty \in StringTargets /\ input \in StringInputs
             \/ ty = TF64 /\ input \in FloatInputs
             \/ ty \in TextKeyedTypes /\ input \in TextKeyedInputs
             \/ ty \in CountedTypes /\ input \in CountedInputs
             \/ ty \in BoolTargets /\ input \in BoolInputs
             \/ \E w \in WholeWires : ty = w.ty /\ input \in TruncatedInputs(w)

\* to_vec(&value); its output is what from_bytes is given next.
ToVecStep ==
    /\ pc = "value"
    /\ encoded' = ToVec(ty, value)
    /\ input' = encoded'.out
    /\ pc' = IF encoded'.ok THEN "bytes" ELSE "done"
    /\ UNCHANGED <<ty, value, result, lookahead, returned, call, loop, steps>>

\* from_bytes::<ty>(input)
FromBytesStep ==
    /\ pc = "bytes"
    /\ result' = FromBytes(ty, input)
    /\ pc' = "done"
    /\ UNCHANGED <<ty, value, encoded, input, lookahead, returned, call, loop, steps>>

Next == ToVecStep \/ FromBytesStep

Spec == Init /\ [][Next]_vars

----------------------------------------------------------------------------
(* The reader alone: any sequence of peek, read1, expect and read_exact    *)
(* calls on a Lookahead1 over a finite byte stream.  A call that fails     *)
(* ends the run, as the `?` after it returns from the decode.              *)

\* Longest byte stream the reader is driven over.
MaxStream == 4
\* Longest buffer handed to read_exact.
MaxRead == 3
StreamAlphabet == {"a", "b"}
Streams == SeqsUpTo(StreamAlphabet, MaxStream)

ReaderInit ==
    /\ pc = "calls"
    /\ ty = TUnit /\ value = NoValue /\ encoded = NotEncoded /\ result = NotDecoded
    /\ input \in Streams
    /\ lookahead = NewReader(input)
    /\ returned = <<>>
    /\ call = NoCall
    /\ loop = NoLoop
    /\ steps = 0

\* self.peek()?
PeekCall ==
    /\ pc = "calls"
    /\ lookahead' = Peek(lookahead).st
    /\ call' = [op |-> "peek", c |-> Peek(lookahead).c, buffered |-> lookahead.buffer, n |-> 0]
    /\ UNCHANGED <<pc, ty, value, encoded, input, result, returned, loop, steps>>

\* What a consuming call leaves behind: r is its outcome, bytes what it
\* returned (for expect, the byte it read and found equal to `expected`).
Consume(op, r, bytes, n) ==
    /\ lookahead' = r.st
    /\ call' = [op |-> op, c |-> <<>>, buffered |-> lookahead.buffer, n |-> n]
    /\ returned' = IF r.ok THEN returned \o bytes ELSE returned
    /\ pc' = IF r.ok THEN "calls" ELSE "failed"
    /\ UNCHANGED <<ty, value, encoded, input, result, loop, steps>>

\* self.read1()?
Read1Call ==
    /\ pc = "calls"
    /\ Consume("read1", Read1(Start(lookahead)), <<Read1(Start(lookahead)).c>>, 1)

\* self.expect(expected)?
ExpectCall ==
    /\ pc = "calls"
    /\ \E expected \in StreamAlphabet :
            Consume("expect", Expect(Start(lookahead), expected), <<expected>>, 1)

\* self.read_exact(&mut buf)? with a buffer of n bytes
ReadExactCall ==
    /\ pc = "calls"
    /\ \E n \in 0..MaxRead :
            Consume("read_exact", ReadExact([Start(lookahead) EXCEPT !.n = n]),
                    ReadExact([Start(lookahead) EXCEPT !.n = n]).data, n)

ReaderNext == PeekCall \/ Read1Call \/ ExpectCall \/ ReadExactCall

ReaderSpec == ReaderInit /\ [][ReaderNext]_vars

----------------------------------------------------------------------------
(* The array arm of deserialize_any one loop iteration at a time: the      *)
(* digit loop of collect_unsigned over the declared count, the visitor's   *)
(* loop over ArraySequence::next_element_seed or over                      *)
(* ArrayMapping::next_key_seed / next_value_seed, and the closing brace.   *)
(* An element is decoded within its iteration.                             *)

\* The declared counts, as written on the wire.
LoopCounts == {<<"0">>, <<"1">>, <<"2">>, <<"1", "2">>, <<"9", "9", "9">>}
\* `a:<count>:{`, up to MaxItems pairs, and the closing brace or nothing.
LoopArrays ==
    {<<"a", ":">> \o cnt \o <<":", "{">>
        \o Concat([j \in 1..Len(kinds) |-> CountedPair(kinds[j], j)]) \o close :
        cnt \in LoopCounts, kinds \in SeqsUpTo(KeyKinds, MaxItems), close \in {<<>>, <<"}">>}}
\* An array inside an array, inputs that end in the header, and values that
\* are no array.
LoopInputs ==
    LoopArrays
    \cup {<<"a", ":", "2", ":", "{", "i", ":", "0", ";", "a", ":", "9", ":", "{", "}", "}">>,
          <<>>, <<"a">>, <<"a", ":">>, <<"a", ":", "1", "2">>,
          <<"i", ":", "1", "2", ";">>, <<"N", ";">>}
LoopTypes == {TVec(TString), TIgnored}

ArrayInit ==
    /\ pc = "tag"
    /\ ty \in LoopTypes
    /\ input \in LoopInputs
    /\ value = NoValue /\ encoded = NotEncoded /\ result = NotDecoded
    /\ lookahead = NewReader(input)
    /\ returned = <<>> /\ call = NoCall
    /\ loop = NoLoop
    /\ steps = 0

\* Where a step leaves the decode: its position, the result or rval, the
\* reader and the locals of the loop.
\* from_bytes returns v.
Return(v) == [pc |-> "done", result |-> v, lookahead |-> v.st, loop |-> loop]

\* The visitor returned rval: the array arm goes on to the closing brace.
Finish(rval) == [pc |-> "close", result |-> rval, lookahead |-> rval.st, loop |-> loop]

\* The loop at `at` goes on with the reader st and the locals next.
Continue(at, st, next) == [pc |-> at, result |-> result, lookahead |-> st, loop |-> next]

\* The decode has taken one more step and is where the step left it.
Become(after) ==
    /\ pc' = after.pc
    /\ result' = after.result
    /\ lookahead' = after.lookahead
    /\ loop' = after.loop
    /\ steps' = steps + 1
    /\ UNCHANGED <<ty, value, encoded, input, returned, call>>

\* collect_unsigned up to its loop, d being the outcome of its first read.
FirstDigitRead(d) ==
    IF d.ok THEN Continue("digits", d.st, [loop EXCEPT !.buf = d.buf])
    ELSE Return(Fail(d.st, d.err))

\* deserialize_any from the type byte on: the array arm up to the first digit
\* of the count; any other arm has no loop over elements and runs whole.
TagRead(sym) ==
    IF sym.ok /\ sym.c = "a" THEN FirstDigitRead(FirstDigit(Read1(NewBuf(sym))))
    ELSE Return(TypeArm(ty, sym))

TagStep ==
    /\ pc = "tag"
    /\ Become(TagRead(TypeEnd(Read1(Start(lookahead)))))

\* The element type the visitor of ty asks next_element / next_value for.
LoopElem == IF ty.k = "vec" THEN ty.of ELSE TIgnored

\* The match on the peeked byte (de.rs 309-320): a visitor that takes the
\* call starts its loop, any other outcome is rval.
PathChosen(p, num) ==
    IF p.c = <<>> THEN Return(Fail(p.st, UnexpectedEof))
    ELSE IF p.c[1] \in {"i", "}"} /\ ty.k \in {"vec", "ignored"}
    THEN Continue("sequence", p.st, [loop EXCEPT !.num = num, !.index = 0, !.acc = <<>>])
    ELSE IF p.c[1] = "s" /\ ty.k = "ignored"
    THEN Continue("mapping", p.st, [loop EXCEPT !.num = num, !.index = 0, !.acc = <<>>])
    ELSE Finish(CASE p.c[1] \in {"i", "}"} -> VisitSeq(ty, p.st, num)
                  [] p.c[1] = "s" -> VisitMap(ty, p.st, num)
                  [] OTHER -> Fail(p.st, UnsupportedArrayKeyType(p.c[1])))

\* The rest of read_array_header once the digit loop has ended.
HeaderRead(h) ==
    IF ~h.ok THEN Return(Fail(h.st, h.err)) ELSE PathChosen(Peek(h.st), h.n)

\* One iteration of the while loop of collect_unsigned, p being its peek.
DigitPeeked(p) ==
    IF p.c # <<>> /\ p.c[1] \in Digits
    THEN Continue("digits", Expect(Start(p.st), p.c[1]).st,
                  [loop EXCEPT !.buf = Append(@, p.c[1])])
    ELSE HeaderRead(Expect(Expect(
            ParseBytes([Start(p.st) EXCEPT !.buf = loop.buf], "usize"), ":"), "{"))

DigitStep ==
    /\ pc = "digits"
    /\ Become(DigitPeeked(Peek(lookahead)))

\* What the sequence visitor of ty returns at the end of the sequence.
SeqValue == IF ty.k = "vec" THEN VSeq(loop.acc) ELSE VIgnored

\* One iteration of the visitor's loop over next_element, e being what
\* next_element_seed returned.
ElementRead(e) ==
    IF ~e.ok THEN Finish(Fail(e.st, e.err))
    ELSE IF ~e.some THEN Finish(Ok(e.st, SeqValue))
    ELSE Continue("sequence", e.st, [loop EXCEPT !.index = e.index, !.acc = Append(@, e.val)])

ElementStep ==
    /\ pc = "sequence"
    /\ Become(ElementRead(NextElementSeed(LoopElem, lookahead, loop.num, loop.index)))

\* next_value_seed: the pair is counted and the value decoded.
PairValueRead(v) ==
    IF ~v.ok THEN Finish(Fail(v.st, v.err))
    ELSE Continue("mapping", v.st, [loop EXCEPT !.index = @ + 1])

\* One iteration of IgnoredAny's loop over next_key / next_value, key being
\* what next_key_seed returned.
PairKeyRead(key) ==
    IF ~key.ok THEN Finish(Fail(key.st, key.err))
    ELSE IF ~key.some THEN Finish(Ok(key.st, VIgnored))
    ELSE PairValueRead(Deserialize(TIgnored, key.st))

PairStep ==
    /\ pc = "mapping"
    /\ Become(PairKeyRead(NextKeySeed(TIgnored, lookahead, loop.num, loop.index)))

\* self.input.expect(b'}')?; rval
CloseStep ==
    /\ pc = "close"
    /\ Become(Return(CloseArray(result)))

ArrayNext == TagStep \/ DigitStep \/ ElementStep \/ PairStep \/ CloseStep

\* The thread takes a step.
Take == pc # "done" /\ steps' = steps + 1

\* The decode is one thread that runs until it returns: as long as from_bytes
\* has not returned, a step is eventually taken.
ArraySpec == ArrayInit /\ [][ArrayNext]_vars /\ WF_steps(Take)

----------------------------------------------------------------------------
(* The properties of the codec.                                            *)

\* from_bytes returned, after to_vec of a typed value.
RoundTripDone == pc = "done" /\ value # NoValue
\* from_bytes returned, on raw input.
DecodeDone == pc = "done" /\ value = NoValue

\* A value compared as Rust compares it: a HashMap is the set of its entries.
RECURSIVE Canon(_)
Canon(v) ==
    CASE v.k \in {"some", "newtype"} -> [k |-> v.k, v |-> Canon(v.v)]
      [] v.k = "seq" -> [k |-> "seq", items |-> [i \in 1..Len(v.items) |-> Canon(v.items[i])]]
      [] v.k = "map" ->
            [k |-> "map",
             set |-> {[key |-> v.entries[i].key, val |-> Canon(v.entries[i].val)] :
                        i \in 1..Len(v.entries)}]
      [] v.k = "struct" -> [k |-> "struct", fvals |-> [i \in 1..Len(v.fvals) |-> Canon(v.fvals[i])]]
      [] OTHER -> v

\* unit, bool, the integers, char, byte vector, text string and the newtype
\* wrappers around them.
RECURSIVE IsScalar(_)
IsScalar(T) ==
    \/ T.k \in {"unit", "bool", "int", "char", "string", "bytes"}
    \/ T = TVec(TInt("u8"))
    \/ T.k = "newtype" /\ IsScalar(T.of)

\* The values whose encoding is the null literal.
RECURSIVE NullEncoded(_, _)
NullEncoded(T, v) ==
    \/ T.k = "unit"
    \/ T.k = "option" /\ (v.k = "none" \/ NullEncoded(T.of, v.v))
    \/ T.k = "newtype" /\ NullEncoded(T.of, v.v)

\* The kinds of value to_vec has no encoding for.
Unencodable ==
    {"iter", "itermap", "unitstruct", "unitvariant", "newtypevariant", "tuplevariant",
     "structvariant"}

\* The supported values: a u64 is below i64::MAX, a present optional is not
\* around a value whose encoding is the null literal, and every part has an
\* encoding.
RECURSIVE Supported(_, _)
Supported(T, v) ==
    CASE T = TInt("u64") -> v.n < IntMax("i64")
      [] T.k \in Unencodable -> FALSE
      [] T.k = "option" -> v.k = "none" \/ (~NullEncoded(T.of, v.v) /\ Supported(T.of, v.v))
      [] T.k = "newtype" -> Supported(T.of, v.v)
      [] T.k = "vec" -> \A i \in 1..Len(v.items) : Supported(T.of, v.items[i])
      [] T.k = "tuple" -> \A i \in 1..Len(v.items) : Supported(T.elems[i], v.items[i])
      [] T.k = "map" -> \A i \in 1..Len(v.entries) : Supported(T.of, v.entries[i].val)
      [] T.k = "struct" -> \A i \in 1..Len(v.fvals) : Supported(T.fields[i].fty, v.fvals[i])
      [] OTHER -> TRUE

\* Every u64 inside v is below i64::MAX: what C3 calls a supported inner value.
RECURSIVE BelowI64Max(_, _)
BelowI64Max(T, v) ==
    CASE T = TInt("u64") -> v.n < IntMax("i64")
      [] T.k = "option" -> v.k = "none" \/ BelowI64Max(T.of, v.v)
      [] T.k = "newtype" -> BelowI64Max(T.of, v.v)
      [] T.k = "vec" -> \A i \in 1..Len(v.items) : BelowI64Max(T.of, v.items[i])
      [] T.k = "tuple" -> \A i \in 1..Len(v.items) : BelowI64Max(T.elems[i], v.items[i])
      [] T.k = "map" -> \A i \in 1..Len(v.entries) : BelowI64Max(T.of, v.entries[i].val)
      [] T.k = "struct" -> \A i \in 1..Len(v.fvals) : BelowI64Max(T.fields[i].fty, v.fvals[i])
      [] OTHER -> TRUE

\* to_vec succeeded and from_bytes of its output gave the value back.
CameBack == encoded.ok /\ result.ok /\ Canon(result.val) = Canon(value)

\* C1: for every value v of type unit, bool, i8..i64, u8..u32, u64 below
\* i64::MAX, char, byte vector, text string or a newtype wrapper around one of
\* these, from_bytes(to_vec(v)) succeeds and equals v.
C1_ScalarRoundTrip ==
    (RoundTripDone /\ IsScalar(ty) /\ Supported(ty, value)) => CameBack

\* A negative i8 inside two wrappers and a u64 just below i64::MAX came back.
C1_Witness ==
    /\ RoundTripDone /\ CameBack
    /\ \/ ty = TInt("u64") /\ value = VInt(IntMax("i64") - 1)
       \/ ty = TInt("i8") /\ value = VInt(IntMin("i8"))

\* The tuples, variable-length sequences, string-keyed maps and records.
IsAggregate(T) == T.k \in {"tuple", "vec", "map", "struct"}

\* C2: for every tuple, variable-length sequence, string-keyed map and record
\* (nested and empty ones included) built from supported values,
\* from_bytes(to_vec(v)) succeeds and equals v.
C2_AggregateRoundTrip ==
    (RoundTripDone /\ IsAggregate(ty) /\ Supported(ty, value)) => CameBack

\* A record holding a sequence of two strings came back, and so did a map of
\* two entries.
C2_Witness ==
    /\ RoundTripDone /\ CameBack
    /\ \/ ty = UserProfile /\ Len(value.fvals[3].items) = 2
       \/ ty.k = "map" /\ Len(value.entries) = 2

\* An optional, or a wrapper around one.
RECURSIVE IsOptional(_)
IsOptional(T) == T.k = "option" \/ (T.k = "newtype" /\ IsOptional(T.of))

\* C3 as stated: every optional value, absent or present around any supported
\* inner value, a present unit and a present absent optional included, comes
\* back from from_bytes(to_vec(v)).
C3_Original ==
    (RoundTripDone /\ IsOptional(ty) /\ BelowI64Max(ty, value)) => CameBack

\* The present optionals around a value whose encoding is the null literal,
\* and the absent optional of the same type.
RECURSIVE PresentNull(_, _)
PresentNull(T, v) ==
    IF T.k = "newtype" THEN PresentNull(T.of, v.v)
    ELSE v.k = "some" /\ NullEncoded(T.of, v.v)

RECURSIVE Absent(_)
Absent(T) == IF T.k = "newtype" THEN VNewtype(Absent(T.of)) ELSE VNone

\* C3, amended: an optional value comes back from from_bytes(to_vec(v)) when
\* it is absent or present around a supported value whose encoding is not the
\* null literal; a present value whose encoding is the null literal (a unit,
\* an absent optional, a wrapper around one) is encoded as `N;` and comes back
\* absent.
C3_OptionRoundTrip ==
    (RoundTripDone /\ IsOptional(ty)) =>
        /\ Supported(ty, value) => CameBack
        /\ PresentNull(ty, value) =>
                /\ encoded.ok /\ encoded.out = <<"N", ";">>
                /\ result.ok /\ result.val = Absent(ty)

\* A present string came back, and a present unit came back absent.
C3_Witness ==
    /\ RoundTripDone /\ result.ok
    /\ \/ ty = TOption(TString) /\ value = VSome(VStr(<<"\"", ";">>)) /\ result.val = value
       \/ ty = TOption(TUnit) /\ value = VSome(VUnit) /\ result.val = VNone

\* The first position (counted from 0) whose key is not the position.
FirstMismatch(ks) ==
    CHOOSE j \in 0..(Len(ks) - 1) : ks[j + 1] # j /\ \A i \in 0..(j - 1) : ks[i + 1] = i

InOrder(ks) == \A j \in 1..Len(ks) : ks[j] = j - 1

\* input is one of the hand-built integer-keyed arrays, and its keys: an
\* array of n pairs is `a:n:{`, twelve bytes a pair with the key as the third,
\* and `}`.
WireCount == DigitVal(input[3])
WireKeys == [j \in 1..WireCount |-> DigitVal(input[12 * j - 4])]
IsKeyedWire ==
    /\ Len(input) >= 6
    /\ input[1] = "a" /\ input[3] \in Digits
    /\ Len(input) = 6 + 12 * WireCount
    /\ \A j \in 1..WireCount : input[12 * j - 4] \in Digits
    /\ input = KeyedWire(WireKeys)

\* C4: decoding an integer-keyed array whose keys are not exactly
\* 0, 1, .., count-1 in that order into a plain sequence fails with
\* IndexMismatch carrying the expected and the actual index.
C4_IndexMismatch ==
    (DecodeDone /\ ty = TVec(TString) /\ IsKeyedWire /\ ~InOrder(WireKeys)) =>
        /\ ~result.ok
        /\ result.err = IndexMismatch(FirstMismatch(WireKeys),
                                      WireKeys[FirstMismatch(WireKeys) + 1])

\* The targets whose decoding reaches deserialize_any: the types with no
\* deserialize_* method of their own, and the optionals and wrappers around
\* them.
RECURSIVE IsGeneric(_)
IsGeneric(T) ==
    \/ T.k \in {"unit", "bool", "int", "f64", "vec", "tuple", "ignored"}
    \/ T.k \in {"option", "newtype"} /\ IsGeneric(T.of)

\* input is `a:<n>:{` followed by at least one byte, n a single digit.
ArrayWithKey ==
    /\ Len(input) >= 6
    /\ SubSeq(input, 1, 2) = <<"a", ":">>
    /\ input[3] \in Digits
    /\ SubSeq(input, 4, 5) = <<":", "{">>

\* C5: when generic decoding reads an array header and the first key's tag
\* is neither `i`, `s` nor the closing `}`, from_bytes fails with
\* UnsupportedArrayKeyType carrying that tag byte.
C5_UnsupportedArrayKeyType ==
    (DecodeDone /\ IsGeneric(ty) /\ ArrayWithKey /\ input[6] \notin {"i", "s", "}"}) =>
        ~result.ok /\ result.err = UnsupportedArrayKeyType(input[6])

\* input begins with `O:`.
ObjectInput == Len(input) >= 2 /\ SubSeq(input, 1, 2) = <<"O", ":">>

\* C6 as stated: every input that begins with `O:` makes from_bytes fail with
\* MissingFeature, whatever the target type.
C6_Original ==
    (DecodeDone /\ ObjectInput) => ~result.ok /\ result.err = MissingFeature

\* The tag a target type's own deserialize_* method expects first; "" for a
\* type decoded by deserialize_any.
RECURSIVE OwnTag(_)
OwnTag(T) ==
    CASE T.k = "char" -> "i"
      [] T.k = "string" -> "s"
      [] T.k \in {"map", "btree", "struct", "unordered"} -> "a"
      [] T.k \in {"option", "newtype"} -> OwnTag(T.of)
      [] OTHER -> ""

\* C6, amended: every input that begins with `O:` makes from_bytes fail and
\* never yields a value; the error is MissingFeature when the target is
\* decoded generically, and Unexpected (expected tag, 'O') when the target is
\* a char, a text string, a map or a record, or an optional or wrapper around
\* one, whose decoding expects its own tag first.
C6_ObjectRejected ==
    (DecodeDone /\ ObjectInput) =>
        /\ ~result.ok /\ result.val = NoValue
        /\ result.err = IF OwnTag(ty) = "" THEN MissingFeature
                        ELSE Unexpected(OwnTag(ty), "O")

\* `O:` was rejected with MissingFeature for a sequence target and with
\* Unexpected for a record target.
C6_Witness ==
    /\ DecodeDone /\ ObjectInput
    /\ \/ ty = TVec(TString) /\ result.err = MissingFeature
       \/ ty = Location /\ result.err = Unexpected("a", "O")

TypeTags == {"N", "b", "i", "d", "s", "a", "O"}

\* C7 as stated: generic decoding of a value whose first byte is no type tag
\* fails with InvalidTypeIndicator carrying that byte, whatever bytes follow.
C7_Original ==
    (DecodeDone /\ IsGeneric(ty) /\ input # <<>> /\ input[1] \notin TypeTags) =>
        ~result.ok /\ result.err = InvalidTypeIndicator(input[1])

\* C7, amended: generic decoding of a value whose first byte is no type tag
\* fails with InvalidTypeIndicator carrying that byte when the next byte is
\* `:`; it fails with Unexpected (expected ':', the next byte) when another
\* byte follows, and with UnexpectedEof when none does.
C7_InvalidTypeIndicator ==
    (DecodeDone /\ IsGeneric(ty) /\ input # <<>> /\ input[1] \notin TypeTags) =>
        /\ ~result.ok
        /\ result.err = IF Len(input) = 1 THEN UnexpectedEof
                        ELSE IF input[2] = ":" THEN InvalidTypeIndicator(input[1])
                        ELSE Unexpected(":", input[2])

\* `x:1` was rejected with InvalidTypeIndicator, `x;` with Unexpected.
C7_Witness ==
    /\ DecodeDone /\ IsGeneric(ty)
    /\ \/ input = <<"x", ":", "1">> /\ result.err = InvalidTypeIndicator("x")
       \/ input = <<"x", ";">> /\ result.err = Unexpected(":", ";")

NullLiteral == <<"N", ";">>

\* C8 as stated: decoding `N;` against any non-optional target type fails.
C8_Original ==
    (pc = "done" /\ input = NullLiteral /\ ~IsOptional(ty)) => ~result.ok

\* The targets whose visitor takes visit_unit: unit, IgnoredAny and the
\* wrappers around them.
RECURSIVE IsUnitLike(_)
IsUnitLike(T) ==
    \/ T.k \in {"unit", "unitstruct", "ignored"}
    \/ T.k = "newtype" /\ IsUnitLike(T.of)

\* C8, amended: decoding `N;` against a non-optional target type fails,
\* except for the unit type (and IgnoredAny and the wrappers around them),
\* which accepts `N;` as its value.
C8_NullAgainstNonOptional ==
    (pc = "done" /\ input = NullLiteral /\ ~IsOptional(ty)) =>
        /\ result.ok <=> IsUnitLike(ty)
        /\ ~result.ok => result.err.kind \in {"DeserializationFailed", "Unexpected"}

\* `N;` was rejected for an integer target and accepted for unit.
C8_Witness ==
    /\ DecodeDone /\ input = NullLiteral
    /\ \/ ty = TInt("i64") /\ result.err = DeserializationFailed
       \/ ty = TUnit /\ result.ok /\ result.val = VUnit

\* C9: to_vec of an absent optional and of unit is exactly `N;`, and
\* from_bytes of `N;` into any optional target yields absent, consuming both
\* bytes.
C9_NullSymmetry ==
    /\ (pc # "value" /\ value \in {VNone, VUnit}) =>
            encoded.ok /\ encoded.out = NullLiteral
    /\ (pc = "done" /\ input = NullLiteral /\ ty.k = "option") =>
            /\ result.ok /\ result.val = VNone
            /\ result.st.pos = 2 /\ result.st.buffer = <<>>

\* `N;` was decoded as absent into an optional whose inner type would take it
\* too, and an absent optional was encoded.
C9_Witness ==
    /\ pc = "done" /\ input = NullLiteral /\ result.val = VNone
    /\ \/ DecodeDone /\ ty = TOption(TUnit)
       \/ RoundTripDone /\ value = VNone /\ encoded.out = NullLiteral

\* The distinct keys of ks, the position of a key among them in ascending
\* order, and the last pair that carries a key.
KeysOf(ks) == {ks[j] : j \in 1..Len(ks)}
KeyAt(rank, ks) == CHOOSE k \in KeysOf(ks) : Cardinality({m \in KeysOf(ks) : m < k}) = rank - 1
LastPair(k, ks) == CHOOSE j \in 1..Len(ks) : ks[j] = k /\ \A i \in (j + 1)..Len(ks) : ks[i] # k

\* C10: decoding an integer-keyed array through deserialize_unordered_array
\* yields the values in strictly ascending key order as a dense sequence
\* whose length is the number of distinct keys; out-of-order keys are
\* accepted and missing indices are dropped, not padded.
C10_UnorderedReconstruction ==
    (DecodeDone /\ ty = Unordered /\ IsKeyedWire) =>
        /\ result.ok
        /\ result.val.v.k = "seq"
        /\ Len(result.val.v.items) = Cardinality(KeysOf(WireKeys))
        /\ \A rank \in 1..Cardinality(KeysOf(WireKeys)) :
                result.val.v.items[rank] =
                    VStr(<<Letter(LastPair(KeyAt(rank, WireKeys), WireKeys))>>)

\* Keys 0, 2, 1, 6 gave the four values of keys 0, 1, 2, 6.
C10_Witness ==
    /\ DecodeDone /\ ty = Unordered /\ input = KeyedWire(ExampleKeys)
    /\ result.ok
    /\ result.val.v.items = <<VStr(<<"a">>), VStr(<<"x">>), VStr(<<"b">>), VStr(<<"s">>)>>

\* The empty array on the wire.
EmptyArray == <<"a", ":", "0", ":", "{", "}">>

\* A record whose fields are all optional.
AllOptional(T) ==
    T.k = "struct" /\ \A i \in 1..Len(T.fields) : T.fields[i].fty.k = "option"

\* The targets `a:0:{}` is a value of, and that value: the empty sequence,
\* the zero-field tuple, the empty map, the record with every field absent.
EmptyTarget(T) ==
    \/ T.k \in {"vec", "map"}
    \/ T.k = "tuple" /\ T.elems = <<>>
    \/ AllOptional(T)

EmptyOf(T) ==
    CASE T.k \in {"vec", "tuple"} -> VSeq(<<>>)
      [] T.k = "map" -> VMap(<<>>)
      [] T.k = "struct" -> VStruct([i \in 1..Len(T.fields) |-> VNone])

\* C11: the input `a:0:{}` decodes successfully into an empty sequence (or
\* zero-field tuple), into a record whose fields are all optional (every
\* field absent), and into an empty map.
C11_EmptyArray ==
    (pc = "done" /\ input = EmptyArray /\ EmptyTarget(ty)) =>
        /\ result.ok /\ result.val = EmptyOf(ty)
        /\ result.st.pos = Len(input) /\ result.st.buffer = <<>>

\* `a:0:{}` handed to from_bytes as raw input gave the empty sequence, the
\* empty tuple, the record of absent fields and the empty map.
C11_Witness ==
    /\ DecodeDone /\ input = EmptyArray /\ result.ok
    /\ \/ ty = TVec(TString) /\ result.val = VSeq(<<>>)
       \/ ty = TTuple(<<>>) /\ result.val = VSeq(<<>>)
       \/ ty = Location /\ result.val = VStruct(<<VNone, VNone>>)
       \/ ty = TMap(TString) /\ result.val = VMap(<<>>)

\* The encoding of a sequence spelled out: the header, for each position k
\* the key `i:k;` and the element's own encoding, and the closing brace.
ElemType(T, k) == IF T.k = "vec" THEN T.of ELSE T.elems[k]
IndexKey(k) == <<"i", ":">> \o FormatNat(k) \o <<";">>
ArrayOf(n, body) == <<"a", ":">> \o FormatNat(n) \o <<":", "{">> \o body \o <<"}">>
ExpectedSeq(T, v) ==
    ArrayOf(Len(v.items),
            Concat([k \in 1..Len(v.items) |->
                      IndexKey(k - 1) \o ToVec(ElemType(T, k), v.items[k]).out]))

\* to_vec returned, for a typed value.
Encoded == pc # "value" /\ value # NoValue

\* Every part of the value has an encoding.
RECURSIVE Encodable(_, _)
Encodable(T, v) ==
    CASE T.k \in Unencodable -> FALSE
      [] T.k = "option" -> v.k = "none" \/ Encodable(T.of, v.v)
      [] T.k = "newtype" -> Encodable(T.of, v.v)
      [] T.k = "vec" -> \A i \in 1..Len(v.items) : Encodable(T.of, v.items[i])
      [] T.k = "tuple" -> \A i \in 1..Len(v.items) : Encodable(T.elems[i], v.items[i])
      [] T.k = "map" -> \A i \in 1..Len(v.entries) : Encodable(T.of, v.entries[i].val)
      [] T.k = "btree" -> \A i \in 1..Len(v.ientries) : Encodable(T.of, v.ientries[i].val)
      [] T.k = "struct" -> \A i \in 1..Len(v.fvals) : Encodable(T.fields[i].fty, v.fvals[i])
      [] OTHER -> TRUE

\* C12: to_vec of a sequence, tuple or tuple struct of n elements (each of
\* which has an encoding) writes `a:n:{`, then for k = 0..n-1 in order the key
\* `i:k;` immediately followed by the encoding of element k, then `}`.
C12_SequenceEncoding ==
    (Encoded /\ ty.k \in {"vec", "tuple"} /\ Encodable(ty, value)) =>
        encoded.ok /\ encoded.out = ExpectedSeq(ty, value)

\* The tuple struct of two byte strings and an empty tuple struct was written
\* with the keys 0, 1, 2.
C12_Witness ==
    /\ Encoded /\ ty = Data
    /\ value = VSeq(<<VBytes(<<"\"", ";">>), VBytes(<<>>), VSeq(<<>>)>>)
    /\ encoded.out = <<"a", ":", "3", ":", "{",
                       "i", ":", "0", ";", "s", ":", "2", ":", "\"", "\"", ";", "\"", ";",
                       "i", ":", "1", ";", "s", ":", "0", ":", "\"", "\"", ";",
                       "i", ":", "2", ";", "a", ":", "0", ":", "{", "}", "}">>

\* A key written as a length-prefixed string.
StringKey(name) ==
    <<"s", ":">> \o FormatNat(Len(name)) \o <<":", "\"">> \o name \o <<"\"", ";">>

\* The encoding of a record spelled out: the header, for each field in
\* declaration order its name as a string and the value's own encoding, and
\* the closing brace.
ExpectedRecord(T, v) ==
    ArrayOf(Len(T.fields),
            Concat([i \in 1..Len(T.fields) |->
                      StringKey(T.fields[i].name) \o ToVec(T.fields[i].fty, v.fvals[i]).out]))

\* `a:3:{s:2:"id";i:42;s:4:"name";s:3:"Bob";s:4:"tags";a:2:{i:0;s:3:"foo";i:1;s:3:"bar";}}`
ExampleProfileBytes ==
    <<"a", ":", "3", ":", "{",
      "s", ":", "2", ":", "\"", "i", "d", "\"", ";", "i", ":", "4", "2", ";",
      "s", ":", "4", ":", "\"", "n", "a", "m", "e", "\"", ";",
      "s", ":", "3", ":", "\"", "B", "o", "b", "\"", ";",
      "s", ":", "4", ":", "\"", "t", "a", "g", "s", "\"", ";",
      "a", ":", "2", ":", "{",
      "i", ":", "0", ";", "s", ":", "3", ":", "\"", "f", "o", "o", "\"", ";",
      "i", ":", "1", ";", "s", ":", "3", ":", "\"", "b", "a", "r", "\"", ";",
      "}", "}">>

\* C13: to_vec of a record with n fields writes `a:n:{`, then for each field
\* in declaration order the field name as a length-prefixed string followed
\* by the encoded value, then `}`; {id:42, name:"Bob", tags:["foo","bar"]}
\* yields exactly the bytes of the crate's round-trip example.
C13_RecordBytes ==
    /\ (Encoded /\ ty.k = "struct") =>
            encoded.ok /\ encoded.out = ExpectedRecord(ty, value)
    /\ (Encoded /\ ty = UserProfile /\ value = ExampleProfile) =>
            encoded.ok /\ encoded.out = ExampleProfileBytes

\* The example profile was written, and its bytes decoded back to it.
C13_Witness ==
    /\ RoundTripDone /\ ty = UserProfile /\ value = ExampleProfile
    /\ encoded.out = ExampleProfileBytes
    /\ result.ok /\ result.val = ExampleProfile

\* A map's entries, whatever its key type, and the encoding of a map spelled
\* out with the keys written by KeyBytes.
EntriesOf(v) == IF v.k = "map" THEN v.entries ELSE v.ientries
ExpectedMap(T, v, KeyBytes(_)) ==
    ArrayOf(Len(EntriesOf(v)),
            Concat([i \in 1..Len(EntriesOf(v)) |->
                      KeyBytes(EntriesOf(v)[i]) \o ToVec(T.of, EntriesOf(v)[i].val).out]))

\* A key as a string-tagged item: a text key as it is, an integer key as the
\* text of its digits.
KeyAsString(e) ==
    IF "key" \in DOMAIN e THEN StringKey(e.key) ELSE StringKey(FormatNat(e.ikey))

\* A key in the encoding of its own type.
KeyAsItself(e) ==
    IF "key" \in DOMAIN e THEN StringKey(e.key) ELSE IndexKey(e.ikey)

IsMapType(T) == T.k \in {"map", "btree"}

\* C14 as stated: for every map entry, to_vec writes the key as a
\* string-tagged item immediately followed by the value, whatever the key's
\* type.
C14_Original ==
    (Encoded /\ IsMapType(ty)) =>
        encoded.ok /\ encoded.out = ExpectedMap(ty, value, KeyAsString)

\* C14, amended: for every map entry, to_vec writes the key in the encoding
\* of the key's own type immediately followed by the value: a text key as a
\* string-tagged item, an integer key as `i:<k>;`.
C14_MapKeys ==
    (Encoded /\ IsMapType(ty)) =>
        encoded.ok /\ encoded.out = ExpectedMap(ty, value, KeyAsItself)

\* A BTreeMap<usize, String> of two entries was written with integer keys and
\* came back, and a HashMap of two entries was written with string keys.
C14_Witness ==
    /\ RoundTripDone /\ IsMapType(ty) /\ result.ok
    /\ \/ /\ ty = TBTreeMap(TString)
          /\ value = VBTree(<<[ikey |-> 1, val |-> VStr(<<>>)], [ikey |-> 3, val |-> VStr(<<>>)]>>)
          /\ encoded.out = <<"a", ":", "2", ":", "{",
                             "i", ":", "1", ";", "s", ":", "0", ":", "\"", "\"", ";",
                             "i", ":", "3", ";", "s", ":", "0", ":", "\"", "\"", ";", "}">>
          /\ result.val = value
       \/ /\ ty = TMap(TString) /\ Len(value.entries) = 2
          /\ SubSeq(encoded.out, 6, 7) = <<"s", ":">>

\* input is `s:<L>:"` and more, L one digit; L, the bytes after the opening
\* quote, and the L bytes of the string.
IsStringWire ==
    /\ Len(input) >= 5
    /\ SubSeq(input, 1, 2) = <<"s", ":">> /\ input[3] \in Digits
    /\ SubSeq(input, 4, 5) = <<":", "\"">>
WireLen == DigitVal(input[3])
WireRest == SubSeq(input, 6, Len(input))
WireData == SubSeq(input, 6, 5 + WireLen)
\* `";` follows the L bytes.
WireClosed == Len(WireRest) >= WireLen + 2 /\ SubSeq(WireRest, WireLen + 1, WireLen + 2) = <<"\"", ";">>

\* The value a string's bytes are for each target.
StringValue(T, data) ==
    CASE T.k = "string" -> VStr(data)
      [] T.k = "bytes" -> VBytes(data)
      [] T.k = "vec" -> VSeq([i \in 1..Len(data) |-> VInt(ByteVal(data[i]))])

\* C15: to_vec writes a byte string or text as `s:<L>:"` + the raw bytes +
\* `";`, L the number of bytes; decoding reads exactly L raw bytes after `:"`
\* whatever their values and then requires `";`: the value is those L bytes
\* (a text target then wants them to be UTF-8), and without the `";` after
\* them the decode fails.
C15_LengthPrefixedStrings ==
    /\ (Encoded /\ ty \in {TString, TBytes}) =>
            /\ encoded.ok
            /\ encoded.out = <<"s", ":">> \o FormatNat(Len(value.s)) \o <<":", "\"">>
                                \o value.s \o <<"\"", ";">>
    /\ (pc = "done" /\ ty \in StringTargets /\ IsStringWire) =>
            /\ (WireClosed /\ (ty = TString => Utf8Valid(WireData))) =>
                    /\ result.ok /\ result.val = StringValue(ty, WireData)
                    /\ result.st.pos = 7 + WireLen /\ result.st.buffer = <<>>
            /\ (WireClosed /\ ty = TString /\ ~Utf8Valid(WireData)) =>
                    ~result.ok /\ result.err = Utf8Error /\ result.st.pos = 7 + WireLen
            /\ ~WireClosed =>
                    /\ ~result.ok
                    /\ result.err.kind \in {"ReadSerialized", "UnexpectedEof", "Unexpected"}

\* `s:3:"";ÿ";` gave the three bytes `"`, `;`, 0xFF as a byte string, and the
\* two-byte character was written with length 2.
C15_Witness ==
    \/ /\ DecodeDone /\ ty = TBytes
       /\ input = <<"s", ":", "3", ":", "\"", "\"", ";", "xFF", "\"", ";">>
       /\ result.ok /\ result.val = VBytes(<<"\"", ";", "xFF">>)
    \/ /\ RoundTripDone /\ ty = TString /\ value = VStr(<<"xC3", "xA9">>)
       /\ encoded.out = <<"s", ":", "2", ":", "\"", "xC3", "xA9", "\"", ";">>
       /\ result.val = value

UnknownLength(T) == T.k \in {"iter", "itermap"}

\* C16: serializing a sequence or a map whose length is not known in advance
\* fails with LengthRequired, and no byte of that aggregate (not even its
\* `a:` header) is written to the sink: the sink holds what was written
\* before the aggregate -- nothing at the top, the tuple's header, first
\* element and second key inside the tuple.
C16_LengthRequired ==
    /\ (Encoded /\ UnknownLength(ty)) =>
            ~encoded.ok /\ encoded.err = LengthRequired /\ encoded.out = <<>>
    /\ (Encoded /\ ty = Chunked) =>
            /\ ~encoded.ok /\ encoded.err = LengthRequired
            /\ encoded.out = <<"a", ":", "2", ":", "{">> \o IndexKey(0)
                                \o ToVec(TString, value.items[1]).out \o IndexKey(1)

\* A sequence of unknown length holding two elements, and a map of unknown
\* length, were refused; from_bytes was never called.
C16_Witness ==
    /\ pc = "done" /\ encoded.err = LengthRequired /\ result = NotDecoded
    /\ \/ ty = TIter(TString) /\ Len(value.items) = 2
       \/ ty = TIterMap(TString) /\ Len(value.entries) = 1
       \/ ty = Chunked /\ Len(encoded.out) > 5

\* The unit struct and the variants.
NoEncoding(T) ==
    T.k \in {"unitstruct", "unitvariant", "newtypevariant", "tuplevariant", "structvariant"}

\* C17: serializing a unit struct, a unit variant, a newtype variant, a tuple
\* variant or a struct variant fails with MissingFeature and writes no bytes
\* for that value: the sink holds what was written before it -- nothing at
\* the top, the header, the earlier elements and the key inside a tuple or a
\* sequence.
C17_MissingFeature ==
    /\ (Encoded /\ NoEncoding(ty)) =>
            ~encoded.ok /\ encoded.err = MissingFeature /\ encoded.out = <<>>
    /\ (Encoded /\ ty = Marked) =>
            /\ ~encoded.ok /\ encoded.err = MissingFeature
            /\ encoded.out = <<"a", ":", "2", ":", "{">> \o IndexKey(0)
                                \o ToVec(TBool, value.items[1]).out \o IndexKey(1)
    /\ (Encoded /\ ty.k = "vec" /\ NoEncoding(ty.of) /\ value.items # <<>>) =>
            /\ ~encoded.ok /\ encoded.err = MissingFeature
            /\ encoded.out = <<"a", ":">> \o FormatNat(Len(value.items)) \o <<":", "{">>
                                \o IndexKey(0)

\* Each of the five was refused at the top level.
C17_Witness ==
    /\ pc = "done" /\ encoded.err = MissingFeature /\ encoded.out = <<>>
    /\ result = NotDecoded
    /\ \/ ty = TUnitStruct
       \/ ty = TUnitVariant
       \/ ty.k = "newtypevariant" /\ value.v = VStr(<<>>)
       \/ ty.k = "tuplevariant" /\ value.v = VSeq(<<VBool(TRUE), VBool(FALSE)>>)
       \/ ty.k = "structvariant" /\ value.v = VStruct(<<VInt(IntMin("i64"))>>)

\* input is `d:<body>;`, the body made of signs, digits and dots.
WireBody == SubSeq(input, 3, Len(input) - 1)
IsFloatWire ==
    /\ Len(input) >= 3
    /\ SubSeq(input, 1, 2) = <<"d", ":">> /\ input[Len(input)] = ";"
    /\ \A i \in 1..Len(WireBody) : WireBody[i] \in Digits \cup {".", "-", "+"}

\* An optional sign, digits, and optionally a `.` with digits after it.
Unsigned(body) ==
    IF body # <<>> /\ Head(body) \in {"+", "-"} THEN Tail(body) ELSE body
IsDecimal(b) ==
    /\ b # <<>> /\ \A i \in 1..Len(b) : b[i] \in Digits \cup {"."}
    /\ Cardinality({i \in 1..Len(b) : b[i] = "."}) <= 1
    /\ b[1] # "." /\ b[Len(b)] # "."

\* C18: the reader accepts a float written as optional sign + digits with or
\* without a `.` + digits part (`d:5;` and `d:5.0;` both decode to 5.0, while
\* `d:5.;` and `d:.5;` are rejected), and the writer emits a whole-number
\* float without a fractional part (5.0 gives `d:5;`, 1.9 gives `d:1.9;`).
C18_FloatDot ==
    /\ (pc = "done" /\ ty = TF64 /\ IsFloatWire) =>
            /\ result.ok <=> IsDecimal(Unsigned(WireBody))
            /\ WireBody \in {<<"5">>, <<"5", ".", "0">>} => result.val = VF64(5, 0)
            /\ WireBody = <<"5", ".">> => result.err = ExpectedDigit(";")
            /\ WireBody = <<".", "5">> => result.err = ExpectedDigit(".")
    /\ (Encoded /\ ty = TF64) =>
            /\ encoded.ok
            /\ value.scale = 0 => \A i \in 1..Len(encoded.out) : encoded.out[i] # "."
            /\ value = VF64(5, 0) => encoded.out = <<"d", ":", "5", ";">>
            /\ value = VF64(19, 1) => encoded.out = <<"d", ":", "1", ".", "9", ";">>
            /\ pc = "done" => result.ok /\ result.val = value

\* `d:5.0;` was read as 5.0, `d:5.;` was rejected, and 5.0 was written as
\* `d:5;` and came back.
C18_Witness ==
    \/ /\ DecodeDone /\ ty = TF64 /\ WireBody = <<"5", ".", "0">>
       /\ result.ok /\ result.val = VF64(5, 0)
    \/ /\ DecodeDone /\ ty = TF64 /\ input = <<"d", ":", "5", ".", ";">> /\ ~result.ok
    \/ /\ RoundTripDone /\ ty = TF64 /\ value = VF64(5, 0)
       /\ encoded.out = <<"d", ":", "5", ";">> /\ result.val = value

\* The outcome of read_array_header on the input, and the outcome of the
\* visitor over the array's elements: what the array decode holds in rval
\* when it goes on to the closing brace.
ArrayHeader == ReadArrayHeader(Expect(Expect(Start(NewReader(input)), "a"), ":"))
ElementsResult ==
    IF ty.k = "vec" THEN VisitSeq(ty, Peek(ArrayHeader.st).st, ArrayHeader.n)
    ELSE VisitMap(ty, ArrayHeader.st, ArrayHeader.n)

\* C19: when decoding an element (key or value) inside an array fails, the
\* error returned by the array decode, and so by from_bytes, is that first
\* error, not an error produced by the later check for the closing `}`.
C19_FirstError ==
    (/\ DecodeDone /\ ty \in {TVec(TString), TMap(TString)}
     /\ ArrayWithKey /\ input[6] = "i"
     /\ ~ElementsResult.ok) =>
        ~result.ok /\ result.err = ElementsResult.err

\* input is one of the hand-built string-keyed arrays, and its key.
IsTextKeyedWire ==
    /\ Len(input) >= 11
    /\ SubSeq(input, 1, 9) = <<"a", ":", "1", ":", "{", "s", ":", input[8], ":">>
    /\ input[8] \in {"0", "1"}
WireTextKey == SubSeq(input, 11, 10 + DigitVal(input[8]))

\* C20 as stated: the mapping helper decodes every key as text, whatever its
\* wire tag and the target key type; an integer-tagged key is never handed to
\* the target as an integer, so an integer-keyed array never decodes into an
\* integer-keyed map.
C20_Original ==
    (DecodeDone /\ ty = TBTreeMap(TString) /\ IsKeyedWire /\ WireCount > 0) => ~result.ok

\* C20, amended: the mapping helper decodes a key by its wire tag.  An
\* integer-tagged key is handed to the target key type's own decoding: an
\* integer key type takes it as an integer, a text key type rejects it.  A
\* key with any other tag is decoded as a string-tagged key with forced text
\* decoding and the text is handed to the target key type: a text key type
\* takes it, an integer key type rejects it, even the text of a number.
C20_MapKeyDecoding ==
    /\ (DecodeDone /\ ty = TBTreeMap(TString) /\ IsKeyedWire) =>
            /\ result.ok
            /\ {result.val.ientries[i].ikey : i \in 1..Len(result.val.ientries)}
                    = KeysOf(WireKeys)
    /\ (DecodeDone /\ ty = TMap(TString) /\ IsKeyedWire /\ WireCount > 0) => ~result.ok
    /\ (DecodeDone /\ ty = TMap(TString) /\ IsTextKeyedWire /\ input \in TextKeyedInputs) =>
            IF input = TextKeyedWire(WireTextKey)
            THEN result.ok /\ result.val = VMap(<<[key |-> WireTextKey, val |-> VStr(<<"b">>)]>>)
            ELSE ~result.ok
    /\ (DecodeDone /\ ty = TBTreeMap(TString) /\ IsTextKeyedWire /\ input \in TextKeyedInputs) =>
            /\ ~result.ok
            /\ input = TextKeyOnlyWire(WireTextKey) => result.err = DeserializationFailed

\* Keys 3 and 1 reached a BTreeMap<usize, String> as the integers 1 and 3,
\* and the string key "1" was refused by it.
C20_Witness ==
    /\ DecodeDone /\ ty = TBTreeMap(TString)
    /\ \/ /\ input = KeyedWire(<<3, 1>>) /\ result.ok
          /\ result.val = VBTree(<<[ikey |-> 1, val |-> VStr(<<"b">>)],
                                    [ikey |-> 3, val |-> VStr(<<"a">>)]>>)
       \/ /\ input = TextKeyOnlyWire(<<"1">>) /\ result.err = DeserializationFailed


\* The targets whose Deserialize is deserialize_any itself: no method of
\* their own, no optional or wrapper in between.
AnyTarget(T) ==
    T.k \in {"unit", "unitstruct", "bool", "int", "f64", "bytes", "vec", "tuple", "ignored"}

\* The byte after the array header of the input.
HasFirstKey == ArrayHeader.ok /\ ArrayHeader.st.pos < Len(input)
FirstKey == input[ArrayHeader.st.pos + 1]

\* The two paths of the array arm taken from the reader as read_array_header
\* left it, nothing peeked: the visitor over an ArraySequence or over an
\* ArrayMapping, then the closing brace.
SequencePath == CloseArray(VisitSeq(ty, ArrayHeader.st, ArrayHeader.n))
MappingPath == CloseArray(VisitMap(ty, ArrayHeader.st, ArrayHeader.n))

\* C21: in generic decoding the byte after the array header chooses the path:
\* `i` or `}` the sequence path, `s` the mapping path, any other byte neither
\* (nothing but that byte is read).  Only that byte matters, whatever the tags
\* of the later keys, and the peek takes nothing: the result is the path's
\* result over a reader that still holds the byte.
C21_ArrayDisambiguation ==
    (DecodeDone /\ AnyTarget(ty) /\ HasFirstKey) =>
        CASE FirstKey \in {"i", "}"} -> result = SequencePath
          [] FirstKey = "s" -> result = MappingPath
          [] OTHER -> ~result.ok /\ result.st.pos = ArrayHeader.st.pos + 1

\* A text key followed by an integer key went the mapping path and was
\* accepted, an integer key followed by a text key went the sequence path and
\* was refused, and the empty array went the sequence path.
C21_Witness ==
    /\ DecodeDone /\ HasFirstKey
    /\ \/ /\ ty = TIgnored /\ input = CountedWire(2, <<"str", "int">>)
          /\ result.ok /\ result = MappingPath /\ result # SequencePath
       \/ /\ ty = TIgnored /\ input = CountedWire(2, <<"int", "str">>)
          /\ ~result.ok /\ result = SequencePath /\ result # MappingPath
       \/ /\ ty = TVec(TString) /\ input = CountedWire(0, <<>>)
          /\ result = Ok(result.st, VSeq(<<>>)) /\ result # MappingPath


\* The outcome of read_exact with a buffer of n bytes on the reader st.
ReadExactOn(st, n) == ReadExact([Start(st) EXCEPT !.n = n])

\* A peek is not observable on the reader st: a second peek returns the same
\* byte and leaves the same reader, and read1, expect and read_exact give the
\* same outcome after the peek as without it.
PeekUnobservable(st) ==
    /\ Peek(Peek(st).st) = Peek(st)
    /\ Read1(Start(Peek(st).st)) = Read1(Start(st))
    /\ Peek(st).c # <<>> => Read1(Start(Peek(st).st)).c = Peek(st).c[1]
    /\ \A expected \in StreamAlphabet :
            Expect(Start(Peek(st).st), expected) = Expect(Start(st), expected)
    /\ \A n \in 1..MaxRead : ReadExactOn(Peek(st).st, n) = ReadExactOn(st, n)
    /\ ReadExactOn(Peek(st).st, 0).data = <<>>

\* C22: over any sequence of successful peek, read1, expect and read_exact
\* calls on a finite byte stream, at most one byte is buffered; the bytes the
\* consuming calls returned, in call order, followed by the buffered byte are
\* exactly the bytes taken from the stream, so they are a prefix of it with
\* nothing lost, duplicated or reordered; peek returns the next byte of the
\* stream, None only at its end, and changes nothing observable.
C22_ByteConservation ==
    pc = "calls" =>
        /\ Len(lookahead.buffer) <= 1
        /\ returned \o lookahead.buffer = SubSeq(input, 1, lookahead.pos)
        /\ call.op = "peek" =>
                call.c = IF Len(returned) < Len(input) THEN <<input[Len(returned) + 1]>>
                         ELSE <<>>
        /\ PeekUnobservable(lookahead)

\* read_exact took a buffered byte and two more and the calls have returned
\* the whole stream; a peek at the end of the stream returned None.
C22_Witness ==
    /\ pc = "calls" /\ Len(input) = MaxStream /\ returned = input
    /\ \/ call.op = "read_exact" /\ call.n = MaxRead /\ call.buffered # <<>>
       \/ call.op = "peek" /\ call.c = <<>>


\* input is one of the hand-built arrays `a:<n>:{` pairs `}`: its declared
\* count and the kinds of its pairs' keys.
CountedShapes == [n : 0..MaxCount, kinds : SeqsUpTo(KeyKinds, MaxItems)]
IsCountedWire == \E w \in CountedShapes : input = CountedWire(w.n, w.kinds)
Shape == CHOOSE w \in CountedShapes : input = CountedWire(w.n, w.kinds)
Declared == Shape.n
Held == Len(Shape.kinds)

\* The number of elements or pairs of a decoded aggregate.
Yielded(v) ==
    CASE v.k = "seq" -> Len(v.items)
      [] v.k = "map" -> Len(v.entries)
      [] v.k = "btree" -> Len(v.ientries)

\* C23: decoding an array with declared count n yields exactly n elements or
\* pairs, and a body that holds fewer or more items than declared always
\* makes from_bytes fail.
C23_CountEnforced ==
    (DecodeDone /\ ty \in CountedTypes /\ IsCountedWire) =>
        /\ Held # Declared => ~result.ok
        /\ (result.ok /\ ty # TIgnored) => Yielded(result.val) = Declared


\* input is `b:` followed by a value byte that is neither `0` nor `1`.
InvalidBoolean ==
    /\ Len(input) >= 3
    /\ SubSeq(input, 1, 2) = <<"b", ":">>
    /\ input[3] \notin {"0", "1"}

\* C24 as stated: decoding `b:` followed by a value byte other than `0` or
\* `1` fails with InvalidBooleanValue carrying that byte, whatever byte
\* follows the value.
C24_Original ==
    (DecodeDone /\ IsGeneric(ty) /\ InvalidBoolean /\ Len(input) >= 4) =>
        ~result.ok /\ result.err = InvalidBooleanValue(input[3])

\* C24, amended: generic decoding of `b:` followed by a value byte other than
\* `0` or `1` fails with InvalidBooleanValue carrying that byte when the byte
\* after the value is `;`; it fails with Unexpected (expected ';', the byte
\* after the value) when another byte follows, and with UnexpectedEof when
\* none does.
C24_InvalidBoolean ==
    (DecodeDone /\ IsGeneric(ty) /\ InvalidBoolean) =>
        /\ ~result.ok
        /\ result.err = IF Len(input) = 3 THEN UnexpectedEof
                        ELSE IF input[4] = ";" THEN InvalidBooleanValue(input[3])
                        ELSE Unexpected(";", input[4])

\* `b:2;` was rejected with InvalidBooleanValue, `b:2x` with Unexpected.
C24_Witness ==
    /\ DecodeDone /\ ty = TBool
    /\ \/ input = <<"b", ":", "2", ";">> /\ result.err = InvalidBooleanValue("2")
       \/ input = <<"b", ":", "2", "x">> /\ result.err = Unexpected(";", "x")


\* C25: to_vec succeeds for every u64 value v and writes `i:<v>;`; from_bytes
\* of that output gives v back when v <= i64::MAX and fails with
\* NotAValidNumber when v > i64::MAX, the integer being parsed as an i64.
C25_U64Asymmetry ==
    (RoundTripDone /\ ty = TInt("u64")) =>
        /\ encoded.ok
        /\ encoded.out = <<"i", ":">> \o FormatNat(value.n) \o <<";">>
        /\ IF value.n <= IntMax("i64") THEN CameBack
           ELSE ~result.ok /\ result.err = NotAValidNumber

\* u64::MAX and i64::MAX + 1 were written and refused, i64::MAX came back.
C25_Witness ==
    /\ RoundTripDone /\ ty = TInt("u64") /\ encoded.ok
    /\ \/ value = VInt(IntMax("u64")) /\ result.err = NotAValidNumber
       \/ value = VInt(IntMax("i64") + 1) /\ result.err = NotAValidNumber
       \/ value = VInt(IntMax("i64")) /\ result = Ok(result.st, value)


\* What is appended to an input that decodes: a digit, the delimiters, the
\* closing brace, and whole values.
Trailers ==
    {<<"1">>, <<".">>, <<";">>, <<"\"">>, <<"}">>, <<"N", ";">>, <<"i", ":", "1", ";">>}

\* from_bytes of the input with t appended gives the same value as from_bytes
\* of the input and stops at the same byte.
SameWith(t) ==
    LET Same(r) ==
            /\ r.ok /\ r.val = result.val
            /\ r.st.pos = result.st.pos /\ r.st.buffer = <<>>
    IN  Same(FromBytes(ty, input \o t))

\* C26: if from_bytes(p) succeeds with value v then from_bytes(p ++ t)
\* succeeds with the same v for every byte string t: the input need not be
\* consumed to its end, and a decode that succeeded has no byte buffered and
\* has read nothing beyond the value.
C26_TrailingIgnored ==
    (pc = "done" /\ result.ok) =>
        /\ result.st.buffer = <<>>
        /\ \A t \in Trailers : SameWith(t)

\* `b:1;;` gave true and `s:1:"";";` the one-byte string `"`, with one and
\* three bytes of the input left unread.
C26_Witness ==
    /\ DecodeDone /\ result.ok /\ result.st.pos < Len(input)
    /\ \/ /\ ty = TBool /\ input = <<"b", ":", "1", ";", ";">>
          /\ result.val = VBool(TRUE) /\ result.st.pos = 4
       \/ /\ ty = TString /\ input = <<"s", ":", "1", ":", "\"", "\"", "\"", ";", "\"", ";">>
          /\ result.val = VStr(<<"\"">>) /\ result.st.pos = 8


\* The wires the input is a proper prefix of, for the target type.
CutWires ==
    {w \in WholeWires : ty = w.ty /\ Len(input) < Len(WireBytes(w))
                        /\ input = SubSeq(WireBytes(w), 1, Len(input))}

\* The input ends inside a string body of w: the opening quote of the body is
\* there and fewer bytes than the body's length follow it.
EndsInBody(w) ==
    \E i \in 1..Len(w.parts) :
        /\ w.parts[i].body
        /\ Len(WireBytes([w EXCEPT !.parts = SubSeq(w.parts, 1, i - 1)])) <= Len(input)
        /\ Len(input) < Len(WireBytes([w EXCEPT !.parts = SubSeq(w.parts, 1, i)]))

\* C27: input that ends where a single byte is expected (tag, delimiter,
\* digit) fails with UnexpectedEof; input that ends inside a string body
\* (fewer bytes than the declared length remain) fails with ReadSerialized;
\* a declared length of 0 cannot fail there.
C27_EofErrorKind ==
    DecodeDone =>
        \A w \in CutWires :
            /\ ~result.ok
            /\ result.err = IF EndsInBody(w) THEN ReadSerialized ELSE UnexpectedEof


\* The bytes the decode has consumed: those taken from the input less the
\* one that waits in the buffer.
Consumed(st) == st.pos - Len(st.buffer)

\* The decode is inside one of its loops.
InLoop == pc \in {"digits", "sequence", "mapping"}

\* The run by iterations ends with what from_bytes returns.
ArrayAgrees == pc = "done" => result = FromBytes(ty, input)

\* C28: for every finite input and every declared count from_bytes
\* eventually returns a value or an error, and every iteration of the digit
\* loop, of the loop over sequence elements and of the loop over mapping
\* pairs that is followed by another iteration has consumed at least one
\* byte of the input; an iteration that consumes nothing ends the loop, and
\* a loop that ends before it has counted the declared number of elements
\* or pairs ends in an error. The run by steps returns what from_bytes
\* returns.
C28_Terminates ==
    /\ <>(pc = "done")
    /\ []((pc \in {"close", "done"} /\ loop.index < loop.num) => ~result.ok)
    /\ []ArrayAgrees
    /\ [](pc \in {"tag", "digits", "sequence", "mapping", "close", "done"})
    /\ [][(InLoop /\ pc' = pc) => Consumed(lookahead') > Consumed(lookahead)]_vars

\* An array declared with 999 elements whose input ends after two pairs was
\* refused at the third element.
C28_Witness ==
    /\ pc = "done" /\ ty = TIgnored
    /\ loop.num = 999 /\ loop.index = 2
    /\ ~result.ok /\ result.err = UnexpectedEof

====
